---------------------------- MODULE Spec2Model ----------------------------
(***************************************************************************)
(* A model of @metapages/dataref, v2: the data-URL codec                   *)
(* (src/src/v2/dataref.ts, lines 9-190) and dereferenceDataRefs, the       *)
(* tree-dereferencing engine (lines 229-311).                              *)
(*                                                                         *)
(* A JavaScript string is a sequence of UTF-16 code units (integers), a    *)
(* byte buffer a sequence of integers 0..255.  String literals of the      *)
(* source are written as their code units, with the text in a comment.     *)
(***************************************************************************)
EXTENDS Integers, Sequences, FiniteSets, TLC

---------------------------------------------------------------------------
(* The records of the model.  Every value, a node of a tree or a payload   *)
(* of the codec, is a record of the same fields: t the kind; n, m          *)
(* integers; s a string or the bytes of a buffer; c the children; k the    *)
(* keys of a mapping.                                                      *)

Value(kind, int1, int2, str, children, keys) ==
    [t |-> kind, n |-> int1, m |-> int2, s |-> str, c |-> children, k |-> keys]

Undef == Value("undefined", 0, 0, <<>>, <<>>, <<>>)
Null == Value("null", 0, 0, <<>>, <<>>, <<>>)
Bool(b) == Value("boolean", IF b THEN 1 ELSE 0, 0, <<>>, <<>>, <<>>)
Num(i) == Value("number", i, 0, <<>>, <<>>, <<>>)
Str(text) == Value("string", 0, 0, text, <<>>, <<>>)
\* an array of the given items
Arr(items) == Value("array", 0, 0, <<>>, items, <<>>)
\* a plain object: key names[i] holds values[i]; the keys are distinct
Obj(names, values) == Value("object", 0, 0, <<>>, values, names)
\* an ArrayBuffer of the given bytes
Buf(bytes) == Value("ArrayBuffer", 0, 0, bytes, <<>>, <<>>)
\* new globalThis[variant](buffer): a numeric array over the whole buffer
Typed(variant, bytes) == Value("TypedArray", 0, 0, bytes, <<>>, <<variant>>)
\* new globalThis[variant](buffer, byteOffset, length): a numeric array over
\* the bytes of the buffer that follow its first `before` bytes and precede
\* its last `after` bytes
View(variant, bytes, before, after) ==
    Value("TypedArray", before, after, bytes, <<>>, <<variant>>)

\* the result of an operation that may throw: ok and the value v, or the
\* name of the error
Ok(value) == [ok |-> TRUE, v |-> value, err |-> ""]
\* ... of an operation that returns a string
Err(error) == [ok |-> FALSE, v |-> <<>>, err |-> error]
\* ... of an operation that returns a Value
Fail(error) == [ok |-> FALSE, v |-> Undef, err |-> error]

\* a parser's result: the value read and the position after it
Parsed(value, after) == [ok |-> TRUE, v |-> value, pos |-> after]
NotParsed == [ok |-> FALSE, v |-> Undef, pos |-> 0]

\* A response of fetch: status "ok" with the body, "notok" (response.ok is
\* false), or "error" (the fetch rejects: network error, abort); contentType
\* is response.headers.get("content-type"), <<>> when there is none.
TypedResponse(state, bytes, type) ==
    [status |-> state, body |-> bytes, contentType |-> type]
Response(state, bytes) == TypedResponse(state, bytes, <<>>)
NoResponse == Response("none", <<>>)

\* the promise dereferenceDataRefs returns: pending, fulfilled with the tree
\* v, whose containers at the paths fresh are new objects, or rejected
Outcome(state, value, paths, error) ==
    [v |-> value, err |-> error, status |-> state, fresh |-> paths]
NoOutcome == Outcome("pending", Undef, {}, "")

\* an entry of the promises array: the path of a token (the indices, as
\* numbers, and keys, as strings, from the root) and the token, whose
\* dereferencing the entry's promise is
Promise(at, token) == [path |-> at, dataUrl |-> token]

\* the state of an entry's promise: pending, resolved with v, or failed
Task(state, value, error) == [v |-> value, err |-> error, status |-> state]
Scheduled == Task("pending", Undef, "")

\* a call of fetch(url, ...), made for the promise of that index
Fetch(address, index) == [url |-> address, task |-> index]

\* a RequestInit, as far as the code and fetch look at it: whether the
\* argument is given at all, and its headers, signal and redirect ("" for a
\* key that is absent)
Options(present, h, s, r) ==
    [given |-> present, headers |-> h, signal |-> s, redirect |-> r]
NoOptions == Options(FALSE, "", "", "")

\* the second argument of a call of fetch and what the call came to
Request(options, response) == [init |-> options, resp |-> response]

---------------------------------------------------------------------------
(* Bounds of the model.                                                    *)

\* the longest text and the longest byte sequence given to an encoder
MaxLen == 3
\* how deep the JSON values given to jsonToDataUrl nest
MaxDepth == 2
\* how many times the trees given to dereferenceDataRefs are wrapped in a
\* further container
MaxNesting == 1

---------------------------------------------------------------------------
(* String literals of the source.                                          *)

DataPrefix == <<100, 97, 116, 97, 58>>  \* "data:"
MIME_TEXT == <<116, 101, 120, 116, 47, 112, 108, 97, 105, 110>>  \* "text/plain"
MIME_JSON ==
    <<97, 112, 112, 108, 105, 99, 97, 116, 105, 111, 110, 47, 106, 115, 111, 110>>  \* "application/json"
MIME_OCTET_STREAM ==
    <<97, 112, 112, 108, 105, 99, 97, 116, 105, 111, 110, 47, 111, 99, 116, 101,
      116, 45, 115, 116, 114, 101, 97, 109>>  \* "application/octet-stream"
MIME_TYPED_ARRAY ==
    <<97, 112, 112, 108, 105, 99, 97, 116, 105, 111, 110, 47, 111, 99, 116, 101,
      116, 45, 115, 116, 114, 101, 97, 109, 59, 116, 121, 112, 101, 61>>  \* "application/octet-stream;type="
MIME_URI == <<116, 101, 120, 116, 47, 120, 45, 117, 114, 105>>  \* "text/x-uri"
CharsetComma == <<59, 99, 104, 97, 114, 115, 101, 116, 61, 117, 116, 102, 45, 56, 44>>  \* ";charset=utf-8,"
Base64Comma == <<59, 98, 97, 115, 101, 54, 52, 44>>  \* ";base64,"
Base64Marker == <<59, 98, 97, 115, 101, 54, 52>>  \* ";base64"
TypeKey == <<116, 121, 112, 101>>  \* "type"

---------------------------------------------------------------------------
(* Sequences.                                                              *)

\* s.substring(from - 1): the elements of s from position from on
Drop(s, from) == IF from > Len(s) THEN <<>> ELSE SubSeq(s, from, Len(s))

\* s.substring(0, n)
Take(s, n) == IF n <= 0 THEN <<>> ELSE SubSeq(s, 1, IF n > Len(s) THEN Len(s) ELSE n)

\* s.startsWith(p)
StartsWith(s, p) == Len(s) >= Len(p) /\ SubSeq(s, 1, Len(p)) = p

\* s.indexOf(c), 1-based; 0 when c does not occur (the source's -1)
IndexOf(s, c) ==
    IF \E i \in 1..Len(s) : s[i] = c
    THEN CHOOSE i \in 1..Len(s) : s[i] = c /\ \A j \in 1..(i - 1) : s[j] # c
    ELSE 0

\* s.includes(p)
Includes(s, p) ==
    \E i \in 1..(Len(s) - Len(p) + 1) : SubSeq(s, i, i + Len(p) - 1) = p

\* s.split(c): the pieces of s between the occurrences of c
RECURSIVE Split(_, _)
Split(s, c) ==
    LET i == IndexOf(s, c)
    IN  IF i = 0 THEN <<s>> ELSE <<Take(s, i - 1)>> \o Split(Drop(s, i + 1), c)

\* the longest prefix of s that holds no element of stop
RECURSIVE SpanNot(_, _)
SpanNot(s, stop) ==
    IF s = <<>> \/ Head(s) \in stop THEN <<>> ELSE <<Head(s)>> \o SpanNot(Tail(s), stop)

---------------------------------------------------------------------------
(* UTF-16 and UTF-8.                                                       *)

IsHighSurrogate(u) == u >= 55296 /\ u <= 56319
IsLowSurrogate(u) == u >= 56320 /\ u <= 57343

\* no lone surrogate in s
RECURSIVE WellFormed(_)
WellFormed(s) ==
    IF s = <<>> THEN TRUE
    ELSE IF IsHighSurrogate(s[1])
         THEN Len(s) >= 2 /\ IsLowSurrogate(s[2]) /\ WellFormed(Drop(s, 3))
         ELSE ~IsLowSurrogate(s[1]) /\ WellFormed(Tail(s))

\* the code points of a string; a lone surrogate becomes U+FFFD (USVString)
RECURSIVE CodePoints(_)
CodePoints(s) ==
    IF s = <<>> THEN <<>>
    ELSE IF IsHighSurrogate(s[1]) /\ Len(s) >= 2 /\ IsLowSurrogate(s[2])
         THEN <<65536 + (s[1] - 55296) * 1024 + (s[2] - 56320)>> \o CodePoints(Drop(s, 3))
         ELSE IF IsHighSurrogate(s[1]) \/ IsLowSurrogate(s[1])
              THEN <<65533>> \o CodePoints(Tail(s))
              ELSE <<s[1]>> \o CodePoints(Tail(s))

\* the code units of one code point
CodeUnits(cp) ==
    IF cp < 65536 THEN <<cp>>
    ELSE <<55296 + ((cp - 65536) \div 1024), 56320 + ((cp - 65536) % 1024)>>

\* the UTF-8 octets of one code point
Utf8Bytes(cp) ==
    IF cp < 128 THEN <<cp>>
    ELSE IF cp < 2048 THEN <<192 + (cp \div 64), 128 + (cp % 64)>>
    ELSE IF cp < 65536
         THEN <<224 + (cp \div 4096), 128 + ((cp \div 64) % 64), 128 + (cp % 64)>>
         ELSE <<240 + (cp \div 262144), 128 + ((cp \div 4096) % 64),
                128 + ((cp \div 64) % 64), 128 + (cp % 64)>>

RECURSIVE Utf8OfCodePoints(_)
Utf8OfCodePoints(cps) ==
    IF cps = <<>> THEN <<>> ELSE Utf8Bytes(Head(cps)) \o Utf8OfCodePoints(Tail(cps))

\* new TextEncoder().encode(s)
TextEncode(s) == Utf8OfCodePoints(CodePoints(s))

IsCont(b) == b >= 128 /\ b <= 191

\* how many octets the lead octet b announces (0: b is no lead octet)
Utf8Need(b) ==
    IF b < 128 THEN 1
    ELSE IF b >= 194 /\ b <= 223 THEN 2
    ELSE IF b >= 224 /\ b <= 239 THEN 3
    ELSE IF b >= 240 /\ b <= 244 THEN 4
    ELSE 0

\* the range allowed for the octet after lead octet b
Utf8SecondOk(b, c) ==
    IF b = 224 THEN c >= 160 /\ c <= 191
    ELSE IF b = 237 THEN c >= 128 /\ c <= 159
    ELSE IF b = 240 THEN c >= 144 /\ c <= 191
    ELSE IF b = 244 THEN c >= 128 /\ c <= 143
    ELSE IsCont(c)

\* how many octets from position i on form the longest valid prefix of one
\* encoded code point (at least 1)
Utf8Run(bs, i) ==
    LET need == Utf8Need(bs[i])
        ok2 == i + 1 <= Len(bs) /\ Utf8SecondOk(bs[i], bs[i + 1])
        ok3 == ok2 /\ i + 2 <= Len(bs) /\ IsCont(bs[i + 2])
        ok4 == ok3 /\ i + 3 <= Len(bs) /\ IsCont(bs[i + 3])
    IN  IF need <= 1 THEN 1
        ELSE IF ~ok2 THEN 1
        ELSE IF need = 2 THEN 2
        ELSE IF ~ok3 THEN 2
        ELSE IF need = 3 THEN 3
        ELSE IF ~ok4 THEN 3
        ELSE 4

\* the code point of the valid sequence of n octets at position i
Utf8Value(bs, i, n) ==
    IF n = 1 THEN bs[i]
    ELSE IF n = 2 THEN (bs[i] - 192) * 64 + (bs[i + 1] - 128)
    ELSE IF n = 3 THEN (bs[i] - 224) * 4096 + (bs[i + 1] - 128) * 64 + (bs[i + 2] - 128)
    ELSE (bs[i] - 240) * 262144 + (bs[i + 1] - 128) * 4096
         + (bs[i + 2] - 128) * 64 + (bs[i + 3] - 128)

\* whether a whole, valid encoded code point starts at position i
Utf8Whole(bs, i) == Utf8Need(bs[i]) >= 1 /\ Utf8Run(bs, i) = Utf8Need(bs[i])

\* UTF-8 decoding with replacement: an invalid sequence yields U+FFFD
RECURSIVE Utf8Decode(_, _)
Utf8Decode(bs, i) ==
    IF i > Len(bs) THEN <<>>
    ELSE LET n == Utf8Run(bs, i)
         IN  IF Utf8Whole(bs, i)
             THEN CodeUnits(Utf8Value(bs, i, n)) \o Utf8Decode(bs, i + n)
             ELSE <<65533>> \o Utf8Decode(bs, i + n)

Utf8Bom == <<239, 187, 191>>

\* new TextDecoder().decode(buffer): the default decoder (ignoreBOM false)
\* drops a leading byte order mark
TextDecode(bs) ==
    IF StartsWith(bs, Utf8Bom) THEN Utf8Decode(bs, 4) ELSE Utf8Decode(bs, 1)

---------------------------------------------------------------------------
(* encodeURIComponent and decodeURIComponent.                              *)

\* the characters encodeURI leaves as they are: the reserved ones as well
UriUnreserved_AsEncodeURI ==
    (48..57) \cup (65..90) \cup (97..122) \cup {45, 95, 46, 33, 126, 42, 39, 40, 41}
    \cup {59, 47, 63, 58, 64, 38, 61, 43, 36, 44, 35}

\* A-Z a-z 0-9 - _ . ! ~ * ' ( ) : the characters encodeURIComponent keeps
UriUnreserved ==
    (48..57) \cup (65..90) \cup (97..122) \cup {45, 95, 46, 33, 126, 42, 39, 40, 41}

HexDigit(n) == IF n < 10 THEN 48 + n ELSE 55 + n

HexVal(c) ==
    IF c >= 48 /\ c <= 57 THEN c - 48
    ELSE IF c >= 65 /\ c <= 70 THEN c - 55
    ELSE IF c >= 97 /\ c <= 102 THEN c - 87
    ELSE -1

\* "%XX" for one octet
PctByte(b) == <<37, HexDigit(b \div 16), HexDigit(b % 16)>>

RECURSIVE PctBytes(_)
PctBytes(bs) == IF bs = <<>> THEN <<>> ELSE PctByte(Head(bs)) \o PctBytes(Tail(bs))

RECURSIVE UriEncodeCodePoints(_)
UriEncodeCodePoints(cps) ==
    IF cps = <<>> THEN <<>>
    ELSE (IF Head(cps) \in UriUnreserved THEN <<Head(cps)>>
          ELSE PctBytes(Utf8Bytes(Head(cps))))
         \o UriEncodeCodePoints(Tail(cps))

\* encodeURIComponent(s): throws URIError on a lone surrogate
encodeURIComponent(s) ==
    IF WellFormed(s) THEN Ok(UriEncodeCodePoints(CodePoints(s))) ELSE Err("URIError")

\* the octet written "%XX" at position k of s, -1 when there is none
PctOctet(s, k) ==
    IF k + 2 <= Len(s) /\ s[k] = 37 /\ HexVal(s[k + 1]) >= 0 /\ HexVal(s[k + 2]) >= 0
    THEN 16 * HexVal(s[k + 1]) + HexVal(s[k + 2])
    ELSE -1

\* the text decoded from position k on, or <<-1>> when an escape is malformed
RECURSIVE UriDecodeFrom(_, _)
UriDecodeFrom(s, k) ==
    IF k > Len(s) THEN <<>>
    ELSE IF s[k] # 37
    THEN LET rest == UriDecodeFrom(s, k + 1)
         IN  IF rest = <<-1>> THEN rest ELSE <<s[k]>> \o rest
    ELSE LET b == PctOctet(s, k)
             need == IF b < 0 THEN 0 ELSE Utf8Need(b)
             octets == [j \in 1..need |-> PctOctet(s, k + 3 * (j - 1))]
         IN  IF need = 0 \/ (\E j \in 1..need : octets[j] < 0) \/ ~Utf8Whole(octets, 1)
             THEN <<-1>>
             ELSE LET rest == UriDecodeFrom(s, k + 3 * need)
                  IN  IF rest = <<-1>> THEN rest
                      ELSE CodeUnits(Utf8Value(octets, 1, need)) \o rest

\* decodeURIComponent(s): throws URIError on a malformed escape
decodeURIComponent(s) ==
    LET out == UriDecodeFrom(s, 1)
    IN  IF out = <<-1>> THEN Err("URIError") ELSE Ok(out)

---------------------------------------------------------------------------
(* btoa and atob.                                                          *)

B64Char(v) ==
    IF v < 26 THEN 65 + v
    ELSE IF v < 52 THEN 97 + (v - 26)
    ELSE IF v < 62 THEN 48 + (v - 52)
    ELSE IF v = 62 THEN 43
    ELSE 47

B64Val(c) ==
    IF c >= 65 /\ c <= 90 THEN c - 65
    ELSE IF c >= 97 /\ c <= 122 THEN c - 97 + 26
    ELSE IF c >= 48 /\ c <= 57 THEN c - 48 + 52
    ELSE IF c = 43 THEN 62
    ELSE IF c = 47 THEN 63
    ELSE -1

\* btoa(String.fromCharCode(...bytes)): every code unit is a byte, so btoa
\* does not throw
RECURSIVE btoa(_)
btoa(bs) ==
    IF bs = <<>> THEN <<>>
    ELSE IF Len(bs) = 1
    THEN <<B64Char(bs[1] \div 4), B64Char((bs[1] % 4) * 16), 61, 61>>
    ELSE IF Len(bs) = 2
    THEN <<B64Char(bs[1] \div 4), B64Char((bs[1] % 4) * 16 + (bs[2] \div 16)),
           B64Char((bs[2] % 16) * 4), 61>>
    ELSE <<B64Char(bs[1] \div 4), B64Char((bs[1] % 4) * 16 + (bs[2] \div 16)),
           B64Char((bs[2] % 16) * 4 + (bs[3] \div 64)), B64Char(bs[3] % 64)>>
         \o btoa(Drop(bs, 4))

AsciiWhitespace == {9, 10, 12, 13, 32}

RECURSIVE Without(_, _)
Without(s, drop) ==
    IF s = <<>> THEN <<>>
    ELSE (IF Head(s) \in drop THEN <<>> ELSE <<Head(s)>>) \o Without(Tail(s), drop)

\* the bytes of the base64 digits ds (no padding, Len(ds) % 4 # 1)
RECURSIVE B64Bytes(_)
B64Bytes(ds) ==
    IF Len(ds) < 2 THEN <<>>
    ELSE LET a == B64Val(ds[1])
             b == B64Val(ds[2])
         IN  IF Len(ds) = 2 THEN <<a * 4 + (b \div 16)>>
             ELSE LET c == B64Val(ds[3])
                  IN  IF Len(ds) = 3
                      THEN <<a * 4 + (b \div 16), (b % 16) * 16 + (c \div 4)>>
                      ELSE <<a * 4 + (b \div 16), (b % 16) * 16 + (c \div 4),
                             (c % 4) * 64 + B64Val(ds[4])>>
                           \o B64Bytes(Drop(ds, 5))

\* atob(data), the forgiving base64 decoding: the string of bytes, or
\* InvalidCharacterError
atob(data) ==
    LET s == Without(data, AsciiWhitespace)
        n == Len(s)
        pad == IF n % 4 = 0 /\ n >= 2 /\ s[n] = 61
               THEN (IF s[n - 1] = 61 THEN 2 ELSE 1)
               ELSE 0
        ds == Take(s, n - pad)
    IN  IF Len(ds) % 4 = 1 \/ (\E i \in 1..Len(ds) : B64Val(ds[i]) < 0)
        THEN Err("InvalidCharacterError")
        ELSE Ok(B64Bytes(ds))

---------------------------------------------------------------------------
(* JSON.stringify and JSON.parse.  The numbers of the model are integers.  *)

RECURSIVE Digits(_)
Digits(n) == IF n < 10 THEN <<48 + n>> ELSE Digits(n \div 10) \o <<48 + (n % 10)>>

NumberToString(n) == IF n < 0 THEN <<45>> \o Digits(-n) ELSE Digits(n)

LowerHexDigit(n) == IF n < 10 THEN 48 + n ELSE 87 + n

\* \uXXXX
UnicodeEscape(u) ==
    <<92, 117, LowerHexDigit(u \div 4096), LowerHexDigit((u \div 256) % 16),
      LowerHexDigit((u \div 16) % 16), LowerHexDigit(u % 16)>>

\* QuoteJSONString without the quotes: control characters, the quote, the
\* backslash and lone surrogates are escaped
RECURSIVE JsonEscape(_)
JsonEscape(s) ==
    IF s = <<>> THEN <<>>
    ELSE LET u == s[1]
         IN  IF IsHighSurrogate(u) /\ Len(s) >= 2 /\ IsLowSurrogate(s[2])
             THEN <<u, s[2]>> \o JsonEscape(Drop(s, 3))
             ELSE (IF u = 34 THEN <<92, 34>>
                   ELSE IF u = 92 THEN <<92, 92>>
                   ELSE IF u = 8 THEN <<92, 98>>
                   ELSE IF u = 12 THEN <<92, 102>>
                   ELSE IF u = 10 THEN <<92, 110>>
                   ELSE IF u = 13 THEN <<92, 114>>
                   ELSE IF u = 9 THEN <<92, 116>>
                   ELSE IF u < 32 \/ IsHighSurrogate(u) \/ IsLowSurrogate(u)
                        THEN UnicodeEscape(u)
                   ELSE <<u>>)
                  \o JsonEscape(Tail(s))

JsonQuote(s) == <<34>> \o JsonEscape(s) \o <<34>>

NoJson == <<-1>>  \* JSON.stringify gives undefined

\* parts joined by commas
RECURSIVE JoinComma(_)
JoinComma(parts) ==
    IF parts = <<>> THEN <<>>
    ELSE IF Len(parts) = 1 THEN parts[1]
    ELSE parts[1] \o <<44>> \o JoinComma(Tail(parts))

\* SerializeJSONProperty: the JSON text of v, NoJson for undefined.  In an
\* array undefined is written null, in an object its key is left out.  An
\* ArrayBuffer has no enumerable property.
RECURSIVE Stringify(_), StringifyItems(_), StringifyMembers(_, _)
Stringify(v) ==
    IF v.t = "undefined" THEN NoJson
    ELSE IF v.t = "null" THEN <<110, 117, 108, 108>>
    ELSE IF v.t = "boolean"
         THEN (IF v.n = 1 THEN <<116, 114, 117, 101>> ELSE <<102, 97, 108, 115, 101>>)
    ELSE IF v.t = "number" THEN NumberToString(v.n)
    ELSE IF v.t = "string" THEN JsonQuote(v.s)
    ELSE IF v.t = "array" THEN <<91>> \o JoinComma(StringifyItems(v.c)) \o <<93>>
    ELSE IF v.t = "object"
         THEN <<123>> \o JoinComma(StringifyMembers(v.k, v.c)) \o <<125>>
    ELSE <<123, 125>>

StringifyItems(c) ==
    IF c = <<>> THEN <<>>
    ELSE <<IF Stringify(c[1]) = NoJson THEN <<110, 117, 108, 108>> ELSE Stringify(c[1])>>
         \o StringifyItems(Tail(c))

StringifyMembers(k, c) ==
    IF c = <<>> THEN <<>>
    ELSE (IF Stringify(c[1]) = NoJson THEN <<>>
          ELSE <<JsonQuote(k[1]) \o <<58>> \o Stringify(c[1])>>)
         \o StringifyMembers(Tail(k), Tail(c))

JsonWhitespace == {9, 10, 13, 32}

RECURSIVE SkipWs(_, _)
SkipWs(s, i) == IF i <= Len(s) /\ s[i] \in JsonWhitespace THEN SkipWs(s, i + 1) ELSE i

\* the code unit a two-character escape \e stands for, -1 when there is none
SimpleEscape(e) ==
    IF e \in {34, 92, 47} THEN e
    ELSE IF e = 98 THEN 8
    ELSE IF e = 102 THEN 12
    ELSE IF e = 110 THEN 10
    ELSE IF e = 114 THEN 13
    ELSE IF e = 116 THEN 9
    ELSE -1

\* the characters of a JSON string from position i (after the opening quote)
\* up to its closing quote, as a string value
RECURSIVE ParseChars(_, _)
ParseChars(s, i) ==
    IF i > Len(s) \/ s[i] < 32 THEN NotParsed
    ELSE IF s[i] = 34 THEN Parsed(Str(<<>>), i + 1)
    ELSE IF s[i] # 92
    THEN LET r == ParseChars(s, i + 1)
         IN  IF r.ok THEN Parsed(Str(<<s[i]>> \o r.v.s), r.pos) ELSE NotParsed
    ELSE IF i + 1 > Len(s) THEN NotParsed
    ELSE IF s[i + 1] = 117
    THEN IF i + 5 <= Len(s) /\ \A j \in 2..5 : HexVal(s[i + j]) >= 0
         THEN LET u == 4096 * HexVal(s[i + 2]) + 256 * HexVal(s[i + 3])
                       + 16 * HexVal(s[i + 4]) + HexVal(s[i + 5])
                  r == ParseChars(s, i + 6)
              IN  IF r.ok THEN Parsed(Str(<<u>> \o r.v.s), r.pos) ELSE NotParsed
         ELSE NotParsed
    ELSE IF SimpleEscape(s[i + 1]) < 0 THEN NotParsed
    ELSE LET r == ParseChars(s, i + 2)
         IN  IF r.ok THEN Parsed(Str(<<SimpleEscape(s[i + 1])>> \o r.v.s), r.pos)
             ELSE NotParsed

IsDigit(c) == c >= 48 /\ c <= 57

\* the value of the digits from position i on, given the value acc so far
RECURSIVE ParseDigits(_, _, _)
ParseDigits(s, i, acc) ==
    IF i <= Len(s) /\ IsDigit(s[i]) THEN ParseDigits(s, i + 1, 10 * acc + (s[i] - 48))
    ELSE Parsed(Num(acc), i)

\* an integer: -? (0 | [1-9][0-9]*).  Fraction and exponent are not part of
\* the model.
ParseNumber(s, i) ==
    LET neg == i <= Len(s) /\ s[i] = 45
        j == IF neg THEN i + 1 ELSE i
    IN  IF j > Len(s) \/ ~IsDigit(s[j]) THEN NotParsed
        ELSE LET r == IF s[j] = 48 THEN Parsed(Num(0), j + 1) ELSE ParseDigits(s, j, 0)
             IN  Parsed(Num(IF neg THEN -r.v.n ELSE r.v.n), r.pos)

Literal(s, i, text) == i + Len(text) - 1 <= Len(s) /\ SubSeq(s, i, i + Len(text) - 1) = text

\* the object of keys k and values c with key holding v
ObjSet(k, c, key, v) ==
    IF \E i \in 1..Len(k) : k[i] = key
    THEN [keys |-> k, vals |-> [i \in 1..Len(c) |-> IF k[i] = key THEN v ELSE c[i]]]
    ELSE [keys |-> Append(k, key), vals |-> Append(c, v)]

RECURSIVE ParseValue(_, _), ParseElements(_, _, _), ParseMembers(_, _, _, _)
ParseValue(s, i0) ==
    LET i == SkipWs(s, i0)
    IN  IF i > Len(s) THEN NotParsed
        ELSE IF Literal(s, i, <<110, 117, 108, 108>>) THEN Parsed(Null, i + 4)
        ELSE IF Literal(s, i, <<116, 114, 117, 101>>) THEN Parsed(Bool(TRUE), i + 4)
        ELSE IF Literal(s, i, <<102, 97, 108, 115, 101>>) THEN Parsed(Bool(FALSE), i + 5)
        ELSE IF s[i] = 34 THEN ParseChars(s, i + 1)
        ELSE IF s[i] = 91
        THEN LET j == SkipWs(s, i + 1)
             IN  IF j <= Len(s) /\ s[j] = 93 THEN Parsed(Arr(<<>>), j + 1)
                 ELSE ParseElements(s, j, <<>>)
        ELSE IF s[i] = 123
        THEN LET j == SkipWs(s, i + 1)
             IN  IF j <= Len(s) /\ s[j] = 125 THEN Parsed(Obj(<<>>, <<>>), j + 1)
                 ELSE ParseMembers(s, j, <<>>, <<>>)
        ELSE ParseNumber(s, i)

\* the elements of an array from position i on, after the items acc
ParseElements(s, i, acc) ==
    LET r == ParseValue(s, i)
        j == SkipWs(s, r.pos)
    IN  IF ~r.ok \/ j > Len(s) THEN NotParsed
        ELSE IF s[j] = 44 THEN ParseElements(s, j + 1, Append(acc, r.v))
        ELSE IF s[j] = 93 THEN Parsed(Arr(Append(acc, r.v)), j + 1)
        ELSE NotParsed

\* the members of an object from position i on, after the members k, c; a
\* repeated key keeps its place and takes the last value
ParseMembers(s, i, k, c) ==
    LET i1 == SkipWs(s, i)
        key == IF i1 <= Len(s) /\ s[i1] = 34 THEN ParseChars(s, i1 + 1) ELSE NotParsed
        i2 == SkipWs(s, key.pos)
        r == IF key.ok /\ i2 <= Len(s) /\ s[i2] = 58 THEN ParseValue(s, i2 + 1)
             ELSE NotParsed
        j == SkipWs(s, r.pos)
        o == ObjSet(k, c, key.v.s, r.v)
    IN  IF ~r.ok \/ j > Len(s) THEN NotParsed
        ELSE IF s[j] = 44 THEN ParseMembers(s, j + 1, o.keys, o.vals)
        ELSE IF s[j] = 125 THEN Parsed(Obj(o.keys, o.vals), j + 1)
        ELSE NotParsed

\* JSON.parse(text): the value, or SyntaxError
JsonParse(text) ==
    LET r == ParseValue(text, 1)
    IN  IF r.ok /\ SkipWs(text, r.pos) > Len(text) THEN Ok(r.v)
        ELSE Fail("SyntaxError")

---------------------------------------------------------------------------
(* The codec: src/src/v2/dataref.ts, lines 9-190.                          *)

\* isDataUrl without the test of the prefix
isDataUrl_AnyString(value) == value.t = "string"

\* typeof value === "string" && value.startsWith("data:")
isDataUrl(value) == value.t = "string" /\ StartsWith(value.s, DataPrefix)

\* dataUrl.match(/^data:([^;]+)/): the characters after "data:" up to the
\* first semicolon; the octet-stream kind when there is no match
getMimeType(dataUrl) ==
    LET kind == SpanNot(Drop(dataUrl, Len(DataPrefix) + 1), {59})
    IN  IF StartsWith(dataUrl, DataPrefix) /\ kind # <<>> THEN kind
        ELSE MIME_OCTET_STREAM

\* dataUrl.match(/^data:[^;]+;([^,]+),/)?.[1]: what stands between the first
\* semicolon and the first comma after it; <<>> when there is no match
ParamString(dataUrl) ==
    LET rest == Drop(dataUrl, Len(DataPrefix) + 1)
        kind == SpanNot(rest, {59})
        after == Drop(rest, Len(kind) + 2)
        group == SpanNot(after, {44})
    IN  IF StartsWith(dataUrl, DataPrefix) /\ kind # <<>> /\ Len(kind) < Len(rest)
           /\ group # <<>> /\ Len(group) < Len(after)
        THEN group
        ELSE <<>>

\* the pairs <<key, value>> that getParameters sets, in order: one for each
\* piece "key=value" of the parameter string whose key and value are not empty
RECURSIVE ParamPairs(_)
ParamPairs(pieces) ==
    IF pieces = <<>> THEN <<>>
    ELSE LET kv == Split(Head(pieces), 61)
         IN  (IF Len(kv) >= 2 /\ kv[1] # <<>> /\ kv[2] # <<>>
              THEN <<<<kv[1], kv[2]>>>> ELSE <<>>)
             \o ParamPairs(Tail(pieces))

getParameters(dataUrl) ==
    LET paramString == ParamString(dataUrl)
    IN  IF paramString = <<>> THEN <<>> ELSE ParamPairs(Split(paramString, 59))

\* params[key]: the value last set for key, <<>> when it was never set
ParamValue(params, key) ==
    IF \E i \in 1..Len(params) : params[i][1] = key
    THEN params[CHOOSE i \in 1..Len(params) :
                  params[i][1] = key /\ \A j \in (i + 1)..Len(params) : params[j][1] # key][2]
    ELSE <<>>

\* textToDataUrl(text): a token, or the URIError of encodeURIComponent
textToDataUrl(text) ==
    LET encoded == encodeURIComponent(text)
    IN  IF encoded.ok THEN Ok(DataPrefix \o MIME_TEXT \o CharsetComma \o encoded.v)
        ELSE encoded

\* jsonToDataUrl with the JSON text put into the token unescaped
jsonToDataUrl_Unescaped(data) ==
    Ok(DataPrefix \o MIME_JSON \o CharsetComma
       \o (IF Stringify(data) = NoJson THEN <<117, 110, 100, 101, 102, 105, 110, 101, 100>>
           ELSE Stringify(data)))

\* jsonToDataUrl(data): encodeURIComponent(undefined) is "undefined"
jsonToDataUrl(data) ==
    LET jsonString == Stringify(data)
        encoded == IF jsonString = NoJson
                   THEN Ok(<<117, 110, 100, 101, 102, 105, 110, 101, 100>>)
                   ELSE encodeURIComponent(jsonString)
    IN  IF encoded.ok THEN Ok(DataPrefix \o MIME_JSON \o CharsetComma \o encoded.v)
        ELSE encoded

\* bufferToDataUrl with the ";base64" marker left out of the header
bufferToDataUrl_NoMarker(bytes) == DataPrefix \o MIME_OCTET_STREAM \o <<44>> \o btoa(bytes)

\* bufferToDataUrl(buffer)
bufferToDataUrl(bytes) == DataPrefix \o MIME_OCTET_STREAM \o Base64Comma \o btoa(bytes)

\* typedArrayToDataUrl(array, type): the whole of array.buffer is encoded
typedArrayToDataUrl(array, type) ==
    DataPrefix \o MIME_TYPED_ARRAY \o type \o Base64Comma \o btoa(array.s)

\* isUrlDataUrl(dataUrl)
isUrlDataUrl(dataUrl) == getMimeType(dataUrl) = MIME_URI

\* dataUrlToUrl with the payload returned as it stands in the token
dataUrlToUrl_Undecoded(dataUrl) ==
    IF getMimeType(dataUrl) # MIME_URI THEN Err("null")
    ELSE IF Len(Split(dataUrl, 44)) < 2
    THEN Ok(<<117, 110, 100, 101, 102, 105, 110, 101, 100>>)
    ELSE Ok(Split(dataUrl, 44)[2])

\* dataUrlToUrl(dataUrl): null (Err("null")) for another kind, else
\* decodeURIComponent(dataUrl.split(",")[1]), which may throw;
\* decodeURIComponent(undefined) is "undefined"
dataUrlToUrl(dataUrl) ==
    LET pieces == Split(dataUrl, 44)
    IN  IF getMimeType(dataUrl) # MIME_URI THEN Err("null")
        ELSE IF Len(pieces) < 2 THEN Ok(<<117, 110, 100, 101, 102, 105, 110, 101, 100>>)
        ELSE decodeURIComponent(pieces[2])

\* what dataUrlToUrl returns or throws, as a value: the URL, or null
UrlOrNull(url) ==
    IF url.ok THEN Ok(Str(url.v))
    ELSE IF url.err = "null" THEN Ok(Null)
    ELSE Fail(url.err)

\* lines 163-165 of urlToDataUrl, encoded being what encodeURIComponent(url)
\* returned or threw
UrlToken(encoded) ==
    IF encoded.ok THEN Ok(DataPrefix \o MIME_URI \o CharsetComma \o encoded.v)
    ELSE encoded

\* lines 168-177 of urlToDataUrl: options says whether fetchOptions is given
\* (any object is truthy), resp is the response of the fetch then made
FetchedToken(urlDataUrl, options, resp) ==
    IF ~urlDataUrl.ok \/ ~options THEN urlDataUrl
    ELSE IF resp.status = "error" THEN Err("fetch rejected")
    ELSE IF resp.status # "ok" THEN Err("Failed to fetch")
    ELSE Ok(bufferToDataUrl(resp.body))

\* urlToDataUrl(url, fetchOptions)
urlToDataUrl(url, options, resp) ==
    FetchedToken(UrlToken(encodeURIComponent(url)), options, resp)

\* urlToDataUrl fetching whether or not fetchOptions is given
FetchesUrl_Always(url, options) == encodeURIComponent(url).ok

\* whether urlToDataUrl(url, fetchOptions) calls fetch: line 169 is reached
\* unless encodeURIComponent threw
FetchesUrl(url, options) == options /\ encodeURIComponent(url).ok

\* whether dataUrlToBuffer(dataUrl) calls fetch (lines 64-69)
Truthy(url) == url.ok /\ url.v # <<>>

Fetches(dataUrl) == Truthy(dataUrlToUrl(dataUrl))

\* lines 76-104 of dataUrlToBuffer: the bytes of an inline token
InlineBuffer(dataUrl) ==
    LET commaIndex == IndexOf(dataUrl, 44)
        header == Take(dataUrl, commaIndex - 1)
        data == Drop(dataUrl, commaIndex + 1)
        binaryString == atob(data)
        decodedString == decodeURIComponent(data)
    IN  IF commaIndex = 0 THEN Fail("Invalid data URL format")
        ELSE IF Includes(header, Base64Marker)
        THEN IF data = <<>> THEN Ok(Buf(<<>>))
             ELSE IF binaryString.ok THEN Ok(Buf(binaryString.v))
             ELSE Fail(binaryString.err)
        ELSE IF data = <<>> THEN Ok(Buf(<<>>))
             ELSE IF decodedString.ok THEN Ok(Buf(TextEncode(decodedString.v)))
             ELSE Fail(decodedString.err)

\* dataUrlToBuffer(dataUrl, fetchOptions), resp being the response of the
\* fetch it makes for a URL token
\* lines 64-73 of dataUrlToBuffer, url being what dataUrlToUrl returned or
\* threw and resp the response of the fetch
FetchBuffer(url, resp) ==
    IF ~url.ok THEN Fail(url.err)
    ELSE IF url.v = <<>> THEN Fail("Invalid URL data URL")
    ELSE IF resp.status = "aborted" THEN Fail("AbortError")
    ELSE IF resp.status = "error" THEN Fail("fetch rejected")
    ELSE IF resp.status # "ok" THEN Fail("Failed to fetch")
    ELSE Ok(Buf(resp.body))

dataUrlToBuffer(dataUrl, resp) ==
    IF isUrlDataUrl(dataUrl) THEN FetchBuffer(dataUrlToUrl(dataUrl), resp)
    ELSE InlineBuffer(dataUrl)

\* dataUrlToText(dataUrl, fetchOptions)
\* line 112: new TextDecoder().decode(buffer), unless the await threw
DecodeText(buffer) == IF buffer.ok THEN Ok(Str(TextDecode(buffer.v.s))) ELSE buffer

dataUrlToText(dataUrl, resp) == DecodeText(dataUrlToBuffer(dataUrl, resp))

\* dataUrlToJson(dataUrl, fetchOptions)
\* line 120: JSON.parse(text), unless the await threw
ParseText(text) == IF text.ok THEN JsonParse(text.v.s) ELSE text

dataUrlToJson(dataUrl, resp) == ParseText(dataUrlToText(dataUrl, resp))

Uint8Array == <<85, 105, 110, 116, 56, 65, 114, 114, 97, 121>>  \* "Uint8Array"
Int16Array == <<73, 110, 116, 49, 54, 65, 114, 114, 97, 121>>  \* "Int16Array"

\* the bytes of one element of each numeric-array variant; 0: the name is
\* not that of a numeric array
BYTES_PER_ELEMENT(type) ==
    IF type \in {<<73, 110, 116, 56, 65, 114, 114, 97, 121>>,  \* "Int8Array"
                 <<85, 105, 110, 116, 56, 65, 114, 114, 97, 121>>,  \* "Uint8Array"
                 <<85, 105, 110, 116, 56, 67, 108, 97, 109, 112, 101, 100, 65, 114,
                   114, 97, 121>>}  \* "Uint8ClampedArray"
    THEN 1
    ELSE IF type \in {<<73, 110, 116, 49, 54, 65, 114, 114, 97, 121>>,  \* "Int16Array"
                      <<85, 105, 110, 116, 49, 54, 65, 114, 114, 97, 121>>}  \* "Uint16Array"
    THEN 2
    ELSE IF type \in {<<73, 110, 116, 51, 50, 65, 114, 114, 97, 121>>,  \* "Int32Array"
                      <<85, 105, 110, 116, 51, 50, 65, 114, 114, 97, 121>>,  \* "Uint32Array"
                      <<70, 108, 111, 97, 116, 51, 50, 65, 114, 114, 97, 121>>}  \* "Float32Array"
    THEN 4
    ELSE IF type \in {<<70, 108, 111, 97, 116, 54, 52, 65, 114, 114, 97, 121>>,  \* "Float64Array"
                      <<66, 105, 103, 73, 110, 116, 54, 52, 65, 114, 114, 97, 121>>,  \* "BigInt64Array"
                      <<66, 105, 103, 85, 105, 110, 116, 54, 52, 65, 114, 114, 97,
                        121>>}  \* "BigUint64Array"
    THEN 8
    ELSE 0

\* new globalThis[name](buffer) for a name that is no numeric array's: new
\* Array(buffer) is an array of one item, new Object(buffer) is the buffer
\* itself, new DataView(buffer) a view of it, new ArrayBuffer(buffer) an empty
\* buffer (the length is ToIndex(buffer), which is 0); a name globalThis does
\* not have, or the name of a function that is no constructor, makes `new`
\* throw a TypeError
Construct(name, buffer) ==
    IF name = <<65, 114, 114, 97, 121>> THEN Ok(Arr(<<buffer>>))  \* "Array"
    ELSE IF name = <<79, 98, 106, 101, 99, 116>> THEN Ok(buffer)  \* "Object"
    ELSE IF name = <<68, 97, 116, 97, 86, 105, 101, 119>>  \* "DataView"
    THEN Ok(Value("DataView", 0, 0, buffer.s, <<>>, <<>>))
    ELSE IF name = <<65, 114, 114, 97, 121, 66, 117, 102, 102, 101, 114>>  \* "ArrayBuffer"
    THEN Ok(Buf(<<>>))
    ELSE Fail("TypeError")

\* dataUrlToTypedArray(dataUrl, fetchOptions): new globalThis[type](buffer)
\* throws a TypeError when globalThis[type] is no constructor and a RangeError
\* when the buffer is not a whole number of elements
\* line 136: new globalThis[arrayType](buffer), unless the await threw
NewTypedArray(arrayType, buffer) ==
    IF ~buffer.ok THEN buffer
    ELSE IF BYTES_PER_ELEMENT(arrayType) = 0 THEN Construct(arrayType, buffer.v)
    ELSE IF Len(buffer.v.s) % BYTES_PER_ELEMENT(arrayType) # 0 THEN Fail("RangeError")
    ELSE Ok(Typed(arrayType, buffer.v.s))

\* dataUrlToTypedArray with Uint8Array taken when there is no type parameter
TypedArrayOf_DefaultVariant(arrayType, dataUrl, resp) ==
    NewTypedArray(IF arrayType = <<>> THEN Uint8Array ELSE arrayType,
                  dataUrlToBuffer(dataUrl, resp))

\* lines 127-136, arrayType being params.type
TypedArrayOf(arrayType, dataUrl, resp) ==
    IF arrayType = <<>> THEN Fail("Data URL does not contain type parameter")
    ELSE NewTypedArray(arrayType, dataUrlToBuffer(dataUrl, resp))

dataUrlToTypedArray(dataUrl, resp) ==
    TypedArrayOf(ParamValue(getParameters(dataUrl), TypeKey), dataUrl, resp)

\* whether dataUrlToTypedArray(dataUrl) calls fetch: it calls dataUrlToBuffer
\* only when the token has a type parameter (lines 130-134)
FetchesTyped(dataUrl) ==
    ParamValue(getParameters(dataUrl), TypeKey) # <<>> /\ Fetches(dataUrl)

\* the part of its buffer a numeric array covers: from array.byteOffset, for
\* array.byteLength bytes
ViewBytes(array) == SubSeq(array.s, array.n + 1, Len(array.s) - array.m)

\* dereferenceDataUrl(dataUrl, fetchOptions): lines 292-311
\* lines 300-310, mimeType and params being those of the token
Dispatch(mimeType, params, dataUrl, resp) ==
    IF mimeType = MIME_JSON THEN dataUrlToJson(dataUrl, resp)
    ELSE IF mimeType = MIME_TEXT THEN dataUrlToText(dataUrl, resp)
    ELSE IF mimeType = MIME_OCTET_STREAM /\ ParamValue(params, TypeKey) # <<>>
    THEN dataUrlToTypedArray(dataUrl, resp)
    ELSE dataUrlToBuffer(dataUrl, resp)

dereferenceDataUrl(dataUrl, resp) ==
    Dispatch(getMimeType(dataUrl), getParameters(dataUrl), dataUrl, resp)

---------------------------------------------------------------------------
(* The state.                                                              *)

VARIABLES
    json,      \* dereferenceDataRefs: the tree given to the call, as it is now
    pc,        \* "start", "awaiting" (at await Promise.all) or "settled";
               \* "idle" when no call is made
    promises,  \* the promises array: [path, dataUrl] in discovery order
    tasks,     \* tasks[i]: the state of promises[i].promise
    fetches,   \* the calls of fetch so far: [url, task]
    order,     \* the tasks in the order in which they settled
    fetchOptions,  \* dereferenceDataRefs: the fetchOptions given to the call
    requests,  \* requests[f]: what fetches[f] carried and the response to it
    outcome,   \* the promise dereferenceDataRefs returned
    cKind,     \* codec: the encoder last applied ("none" at first)
    cInput,    \* codec: what it was given
    cToken,    \* codec: what it returned (a token, or the error thrown)
    cDecoder,  \* codec: the decoder last applied to the token
    cOut,      \* codec: what the decoder returned
    cResp      \* codec: the response to the fetch that urlToDataUrl made

engineVars == <<json, pc, promises, tasks, fetches, order, outcome, fetchOptions, requests>>
codecVars == <<cKind, cInput, cToken, cDecoder, cOut, cResp>>
vars == <<json, pc, promises, tasks, fetches, order, outcome, fetchOptions, requests,
          cKind, cInput, cToken, cDecoder, cOut, cResp>>

EngineIdle ==
    /\ json = Undef
    /\ pc = "idle"
    /\ promises = <<>>
    /\ tasks = <<>>
    /\ fetches = <<>>
    /\ order = <<>>
    /\ outcome = NoOutcome
    /\ fetchOptions = NoOptions
    /\ requests = <<>>

CodecIdle ==
    /\ cKind = "none"
    /\ cInput = Undef
    /\ cToken = Err("none")
    /\ cDecoder = "none"
    /\ cOut = Fail("none")
    /\ cResp = NoResponse

---------------------------------------------------------------------------
(* The codec's operations on bounded inputs.                               *)

\* what a fetch may come to: a response that is ok, with the bytes of "hi",
\* one that is not ok, or a rejection
Responses ==
    {Response("ok", <<104, 105>>), Response("notok", <<>>), Response("error", <<>>)}

\* the characters of the texts: a , % LF e-acute U+FEFF U+1F30D (a surrogate
\* pair) and a lone high surrogate
Characters ==
    {<<97>>, <<44>>, <<37>>, <<10>>, <<233>>, <<65279>>, <<55356, 57101>>, <<55356>>}

RECURSIVE TextsOf(_)
TextsOf(n) ==
    IF n = 0 THEN {<<>>}
    ELSE TextsOf(n - 1) \cup {t \o ch : t \in TextsOf(n - 1), ch \in Characters}

Texts == TextsOf(MaxLen)

\* byte sequences: every byte value at every position, beside the bytes 0
\* and 255
RECURSIVE ByteSeqsOf(_)
ByteSeqsOf(n) ==
    IF n = 0 THEN {<<>>}
    ELSE ByteSeqsOf(n - 1)
         \cup {[i \in 1..n |-> IF i = p THEN b ELSE IF i \in hi THEN 255 ELSE 0] :
                 p \in 1..n, b \in 0..255, hi \in SUBSET (1..n)}

ByteSeqs == ByteSeqsOf(MaxLen)

\* JSON-compatible values: null, booleans, integers, strings (empty, with a
\* quote and a backslash, with a percent sign, with U+FEFF first, with a
\* control character, with a lone surrogate), arrays and objects
JsonLeaves ==
    {Null, Bool(TRUE), Bool(FALSE), Num(0), Num(-12), Num(30),
     Str(<<>>), Str(<<97, 34, 92>>), Str(<<37, 52, 49>>), Str(<<65279, 97>>),
     Str(<<233, 10, 44>>), Str(<<55356>>)}

JsonFew == {Null, Num(30), Str(<<97, 34, 92>>)}

JsonKeyA == <<97>>  \* "a"
JsonKeyB == <<98, 34>>  \* b followed by a quote

RECURSIVE JsonValues(_)
JsonValues(d) ==
    IF d = 0 THEN JsonLeaves
    ELSE LET sub == JsonValues(d - 1)
         IN  sub \cup {Arr(<<>>), Obj(<<>>, <<>>)}
             \cup {Arr(<<x>>) : x \in sub}
             \cup {Arr(<<x, y>>) : x \in sub, y \in JsonFew}
             \cup {Obj(<<JsonKeyA>>, <<x>>) : x \in sub}
             \cup {Obj(<<JsonKeyB>>, <<x>>) : x \in sub}
             \cup {Obj(<<JsonKeyA, JsonKeyB>>, <<y, x>>) : x \in sub, y \in JsonFew}

\* the bytes of the buffers under the numeric arrays
RECURSIVE ArrayBytesOf(_)
ArrayBytesOf(n) ==
    IF n = 0 THEN {<<>>}
    ELSE ArrayBytesOf(n - 1)
         \cup {bs \o <<b>> : bs \in ArrayBytesOf(n - 1), b \in {0, 1, 255}}

\* the numeric arrays of a variant: over a whole buffer, as new
\* Uint8Array([1, 255]) is, or over a part of it that starts and ends at a
\* whole number of elements, as array.subarray(1) and new Int16Array(buffer,
\* 2, 1) are
ArraysOf(variant) ==
    {View(variant, bytes, before, after) :
       bytes \in ArrayBytesOf(MaxLen), before \in 0..MaxLen, after \in 0..MaxLen}

TypedArrays ==
    {array \in ArraysOf(Uint8Array) \cup ArraysOf(Int16Array) :
       /\ array.n + array.m <= Len(array.s)
       /\ array.n % BYTES_PER_ELEMENT(array.k[1]) = 0
       /\ (Len(array.s) - array.n - array.m) % BYTES_PER_ELEMENT(array.k[1]) = 0}

\* the characters of the URLs: h ? # , % e-acute and a lone high surrogate
UrlCharacters == {<<104>>, <<63>>, <<35>>, <<44>>, <<37>>, <<233>>, <<55356>>}

RECURSIVE UrlsOf(_)
UrlsOf(n) ==
    IF n = 0 THEN {<<>>}
    ELSE UrlsOf(n - 1) \cup {u \o ch : u \in UrlsOf(n - 1), ch \in UrlCharacters}

Urls == UrlsOf(MaxLen)

\* the responses a call may get: those of fetch when it calls fetch
ResponsesTo(called) == IF called THEN Responses ELSE {NoResponse}

ContentTypeHtml == <<116, 101, 120, 116, 47, 104, 116, 109, 108>>  \* "text/html"

\* what the fetch of urlToDataUrl may come to: a response that is ok, with no
\* bytes, the bytes of "hi" or the bytes 255, 0, 128, sent with the content
\* type text/html or with none; one that is not ok; or a rejection
UrlResponses ==
    {TypedResponse("ok", body, type) :
       body \in {<<>>, <<104, 105>>, <<255, 0, 128>>}, type \in {<<>>, ContentTypeHtml}}
    \cup {TypedResponse("notok", <<>>, ContentTypeHtml), Response("error", <<>>)}

UrlResponsesTo(called) == IF called THEN UrlResponses ELSE {NoResponse}

\* the log of the calls of fetch after a call that fetches url, if it does
Logged(log, called, url) == IF called THEN Append(log, Fetch(url.v, 0)) ELSE log

\* textToDataUrl(text) is called
TextToDataUrl ==
    /\ cKind = "none"
    /\ \E text \in Texts :
          /\ cInput' = Str(text)
          /\ cToken' = textToDataUrl(text)
    /\ cKind' = "text"
    /\ UNCHANGED <<cDecoder, cOut, cResp>>
    /\ UNCHANGED engineVars

\* jsonToDataUrl(data) is called
JsonToDataUrl ==
    /\ cKind = "none"
    /\ \E data \in JsonValues(MaxDepth) :
          /\ cInput' = data
          /\ cToken' = jsonToDataUrl(data)
    /\ cKind' = "json"
    /\ UNCHANGED <<cDecoder, cOut, cResp>>
    /\ UNCHANGED engineVars

\* bufferToDataUrl(bytes) is called
BufferToDataUrl ==
    /\ cKind = "none"
    /\ \E bytes \in ByteSeqs :
          /\ cInput' = Buf(bytes)
          /\ cToken' = Ok(bufferToDataUrl(bytes))
    /\ cKind' = "buffer"
    /\ UNCHANGED <<cDecoder, cOut, cResp>>
    /\ UNCHANGED engineVars

\* typedArrayToDataUrl(array, type) is called with an array and its variant
TypedArrayToDataUrl ==
    /\ cKind = "none"
    /\ \E array \in TypedArrays :
          /\ cInput' = array
          /\ cToken' = Ok(typedArrayToDataUrl(array, array.k[1]))
    /\ cKind' = "typedArray"
    /\ UNCHANGED <<cDecoder, cOut, cResp>>
    /\ UNCHANGED engineVars

\* urlToDataUrl(url) or urlToDataUrl(url, fetchOptions) is called
UrlToDataUrl ==
    /\ cKind = "none"
    /\ \E url \in Urls, options \in BOOLEAN :
          /\ cInput' = Str(url)
          /\ \E resp \in UrlResponsesTo(FetchesUrl(url, options)) :
                /\ cToken' = urlToDataUrl(url, options, resp)
                /\ cResp' = resp
          /\ fetches' = Logged(fetches, FetchesUrl(url, options), Ok(url))
          /\ cKind' = IF options THEN "urlFetched" ELSE "url"
    /\ UNCHANGED <<cDecoder, cOut>>
    /\ UNCHANGED <<json, pc, promises, tasks, order, outcome, fetchOptions, requests>>

\* dataUrlToText is called with the token
DataUrlToText ==
    /\ cToken.ok
    /\ cDecoder = "none"
    /\ cDecoder' = "text"
    /\ \E resp \in ResponsesTo(Fetches(cToken.v)) :
          cOut' = dataUrlToText(cToken.v, resp)
    /\ fetches' = Logged(fetches, Fetches(cToken.v), dataUrlToUrl(cToken.v))
    /\ UNCHANGED <<cKind, cInput, cToken, cResp>>
    /\ UNCHANGED <<json, pc, promises, tasks, order, outcome, fetchOptions, requests>>

\* dataUrlToJson is called with the token
DataUrlToJson ==
    /\ cToken.ok
    /\ cDecoder = "none"
    /\ cDecoder' = "json"
    /\ \E resp \in ResponsesTo(Fetches(cToken.v)) :
          cOut' = dataUrlToJson(cToken.v, resp)
    /\ fetches' = Logged(fetches, Fetches(cToken.v), dataUrlToUrl(cToken.v))
    /\ UNCHANGED <<cKind, cInput, cToken, cResp>>
    /\ UNCHANGED <<json, pc, promises, tasks, order, outcome, fetchOptions, requests>>

\* dataUrlToBuffer is called with the token
DataUrlToBuffer ==
    /\ cToken.ok
    /\ cDecoder = "none"
    /\ cDecoder' = "buffer"
    /\ \E resp \in ResponsesTo(Fetches(cToken.v)) :
          cOut' = dataUrlToBuffer(cToken.v, resp)
    /\ fetches' = Logged(fetches, Fetches(cToken.v), dataUrlToUrl(cToken.v))
    /\ UNCHANGED <<cKind, cInput, cToken, cResp>>
    /\ UNCHANGED <<json, pc, promises, tasks, order, outcome, fetchOptions, requests>>

\* dataUrlToTypedArray is called with the token
DataUrlToTypedArray ==
    /\ cToken.ok
    /\ cDecoder = "none"
    /\ cDecoder' = "typedArray"
    /\ \E resp \in ResponsesTo(FetchesTyped(cToken.v)) :
          cOut' = dataUrlToTypedArray(cToken.v, resp)
    /\ fetches' = Logged(fetches, FetchesTyped(cToken.v), dataUrlToUrl(cToken.v))
    /\ UNCHANGED <<cKind, cInput, cToken, cResp>>
    /\ UNCHANGED <<json, pc, promises, tasks, order, outcome, fetchOptions, requests>>

\* dataUrlToUrl is called with the token
DataUrlToUrl ==
    /\ cToken.ok
    /\ cDecoder = "none"
    /\ cDecoder' = "url"
    /\ cOut' = UrlOrNull(dataUrlToUrl(cToken.v))
    /\ UNCHANGED <<cKind, cInput, cToken, cResp>>
    /\ UNCHANGED engineVars

CodecInit == EngineIdle /\ CodecIdle

CodecNext ==
    \/ TextToDataUrl
    \/ JsonToDataUrl
    \/ BufferToDataUrl
    \/ TypedArrayToDataUrl
    \/ UrlToDataUrl
    \/ DataUrlToText
    \/ DataUrlToJson
    \/ DataUrlToBuffer
    \/ DataUrlToTypedArray
    \/ DataUrlToUrl

SpecCodec == CodecInit /\ [][CodecNext]_vars

---------------------------------------------------------------------------
(* The accessors and the decoders on given arguments.                      *)

\* strings written by hand: tokens with and without parameters, with and
\* without a comma, with a type that is or is not a numeric array's, and
\* strings that are no tokens
GivenStrings ==
    {
     \* "": the empty string
     <<>>,
     \* "hi"
     <<104, 105>>,
     \* "http:x"
     <<104, 116, 116, 112, 58, 120>>,
     \* "data"
     <<100, 97, 116, 97>>,
     \* "DATA:x,y"
     <<68, 65, 84, 65, 58, 120, 44, 121>>,
     \* " data:,x"
     <<32, 100, 97, 116, 97, 58, 44, 120>>,
     \* "x,abc": no prefix, a comma
     <<120, 44, 97, 98, 99>>,
     \* "text/plain;base64,AQI=": no prefix, a header and a payload
     <<116, 101, 120, 116, 47, 112, 108, 97, 105, 110, 59, 98, 97, 115, 101, 54, 52,
       44, 65, 81, 73, 61>>,
     \* "data:"
     <<100, 97, 116, 97, 58>>,
     \* "data:x": no comma
     <<100, 97, 116, 97, 58, 120>>,
     \* "data:,"
     <<100, 97, 116, 97, 58, 44>>,
     \* "data:text/plain,hello"
     <<100, 97, 116, 97, 58, 116, 101, 120, 116, 47, 112, 108, 97, 105, 110, 44, 104,
       101, 108, 108, 111>>,
     \* "data:text/plain,": an empty payload, no parameters
     <<100, 97, 116, 97, 58, 116, 101, 120, 116, 47, 112, 108, 97, 105, 110, 44>>,
     \* "data:application/json;charset=utf-8,": an empty payload
     <<100, 97, 116, 97, 58, 97, 112, 112, 108, 105, 99, 97, 116, 105, 111, 110, 47,
       106, 115, 111, 110, 59, 99, 104, 97, 114, 115, 101, 116, 61, 117, 116, 102, 45,
       56, 44>>,
     \* "data:application/json,": an empty payload, no parameters
     <<100, 97, 116, 97, 58, 97, 112, 112, 108, 105, 99, 97, 116, 105, 111, 110, 47,
       106, 115, 111, 110, 44>>,
     \* "data:application/octet-stream,": an empty payload, no marker
     <<100, 97, 116, 97, 58, 97, 112, 112, 108, 105, 99, 97, 116, 105, 111, 110, 47,
       111, 99, 116, 101, 116, 45, 115, 116, 114, 101, 97, 109, 44>>,
     \* "data:application/octet-stream;type=Float64Array;base64,": an empty payload
     <<100, 97, 116, 97, 58, 97, 112, 112, 108, 105, 99, 97, 116, 105, 111, 110, 47,
       111, 99, 116, 101, 116, 45, 115, 116, 114, 101, 97, 109, 59, 116, 121, 112, 101,
       61, 70, 108, 111, 97, 116, 54, 52, 65, 114, 114, 97, 121, 59, 98, 97, 115, 101,
       54, 52, 44>>,
     \* "data:text/x-uri;charset=utf-8,a,b": a comma in the payload
     <<100, 97, 116, 97, 58, 116, 101, 120, 116, 47, 120, 45, 117, 114, 105, 59, 99,
       104, 97, 114, 115, 101, 116, 61, 117, 116, 102, 45, 56, 44, 97, 44, 98>>,
     \* "data:text/plain;charset=utf-8,a;b=c,d": a semicolon and a comma in the payload
     <<100, 97, 116, 97, 58, 116, 101, 120, 116, 47, 112, 108, 97, 105, 110, 59, 99,
       104, 97, 114, 115, 101, 116, 61, 117, 116, 102, 45, 56, 44, 97, 59, 98, 61, 99,
       44, 100>>,
     \* "data:text/plain,a;b=c,d": the same, no parameters
     <<100, 97, 116, 97, 58, 116, 101, 120, 116, 47, 112, 108, 97, 105, 110, 44, 97,
       59, 98, 61, 99, 44, 100>>,
     \* "data:text/plain;charset=utf-8": no comma
     <<100, 97, 116, 97, 58, 116, 101, 120, 116, 47, 112, 108, 97, 105, 110, 59, 99,
       104, 97, 114, 115, 101, 116, 61, 117, 116, 102, 45, 56>>,
     \* "data:application/json,{}"
     <<100, 97, 116, 97, 58, 97, 112, 112, 108, 105, 99, 97, 116, 105, 111, 110, 47,
       106, 115, 111, 110, 44, 123, 125>>,
     \* "data:image/png;base64,iVBORw0KGgo="
     <<100, 97, 116, 97, 58, 105, 109, 97, 103, 101, 47, 112, 110, 103, 59, 98, 97,
       115, 101, 54, 52, 44, 105, 86, 66, 79, 82, 119, 48, 75, 71, 103, 111, 61>>,
     \* "data:text/x-uri,https%3A%2F%2Fexample.com"
     <<100, 97, 116, 97, 58, 116, 101, 120, 116, 47, 120, 45, 117, 114, 105, 44, 104,
       116, 116, 112, 115, 37, 51, 65, 37, 50, 70, 37, 50, 70, 101, 120, 97, 109, 112,
       108, 101, 46, 99, 111, 109>>,
     \* "data:text/x-uri;charset=utf-8,u"
     <<100, 97, 116, 97, 58, 116, 101, 120, 116, 47, 120, 45, 117, 114, 105, 59, 99,
       104, 97, 114, 115, 101, 116, 61, 117, 116, 102, 45, 56, 44, 117>>,
     \* "data:text/x-uri;charset=utf-8,": an empty URL
     <<100, 97, 116, 97, 58, 116, 101, 120, 116, 47, 120, 45, 117, 114, 105, 59, 99,
       104, 97, 114, 115, 101, 116, 61, 117, 116, 102, 45, 56, 44>>,
     \* "data:text/x-uri;charset=utf-8,%": a malformed escape
     <<100, 97, 116, 97, 58, 116, 101, 120, 116, 47, 120, 45, 117, 114, 105, 59, 99,
       104, 97, 114, 115, 101, 116, 61, 117, 116, 102, 45, 56, 44, 37>>,
     \* "data:text/x-uri;charset=utf-8": no comma
     <<100, 97, 116, 97, 58, 116, 101, 120, 116, 47, 120, 45, 117, 114, 105, 59, 99,
       104, 97, 114, 115, 101, 116, 61, 117, 116, 102, 45, 56>>,
     \* "data:text/x-uri;type=Uint8Array,u"
     <<100, 97, 116, 97, 58, 116, 101, 120, 116, 47, 120, 45, 117, 114, 105, 59, 116,
       121, 112, 101, 61, 85, 105, 110, 116, 56, 65, 114, 114, 97, 121, 44, 117>>,
     \* "data:text/x-uri;type=Array,u"
     <<100, 97, 116, 97, 58, 116, 101, 120, 116, 47, 120, 45, 117, 114, 105, 59, 116,
       121, 112, 101, 61, 65, 114, 114, 97, 121, 44, 117>>,
     \* "data:application/octet-stream;base64,AQI="
     <<100, 97, 116, 97, 58, 97, 112, 112, 108, 105, 99, 97, 116, 105, 111, 110, 47,
       111, 99, 116, 101, 116, 45, 115, 116, 114, 101, 97, 109, 59, 98, 97, 115, 101,
       54, 52, 44, 65, 81, 73, 61>>,
     \* "data:application/octet-stream;base64,!": no base64 text
     <<100, 97, 116, 97, 58, 97, 112, 112, 108, 105, 99, 97, 116, 105, 111, 110, 47,
       111, 99, 116, 101, 116, 45, 115, 116, 114, 101, 97, 109, 59, 98, 97, 115, 101,
       54, 52, 44, 33>>,
     \* "data:application/octet-stream;base64": no comma
     <<100, 97, 116, 97, 58, 97, 112, 112, 108, 105, 99, 97, 116, 105, 111, 110, 47,
       111, 99, 116, 101, 116, 45, 115, 116, 114, 101, 97, 109, 59, 98, 97, 115, 101,
       54, 52>>,
     \* "data:application/octet-stream,abc"
     <<100, 97, 116, 97, 58, 97, 112, 112, 108, 105, 99, 97, 116, 105, 111, 110, 47,
       111, 99, 116, 101, 116, 45, 115, 116, 114, 101, 97, 109, 44, 97, 98, 99>>,
     \* "data:application/octet-stream;type=;base64,AQI=": an empty type
     <<100, 97, 116, 97, 58, 97, 112, 112, 108, 105, 99, 97, 116, 105, 111, 110, 47,
       111, 99, 116, 101, 116, 45, 115, 116, 114, 101, 97, 109, 59, 116, 121, 112, 101,
       61, 59, 98, 97, 115, 101, 54, 52, 44, 65, 81, 73, 61>>,
     \* "data:application/octet-stream;type=Uint8Array;base64,AQI="
     <<100, 97, 116, 97, 58, 97, 112, 112, 108, 105, 99, 97, 116, 105, 111, 110, 47,
       111, 99, 116, 101, 116, 45, 115, 116, 114, 101, 97, 109, 59, 116, 121, 112, 101,
       61, 85, 105, 110, 116, 56, 65, 114, 114, 97, 121, 59, 98, 97, 115, 101, 54, 52,
       44, 65, 81, 73, 61>>,
     \* "data:application/octet-stream;type=Int16Array;base64,AQID": three bytes
     <<100, 97, 116, 97, 58, 97, 112, 112, 108, 105, 99, 97, 116, 105, 111, 110, 47,
       111, 99, 116, 101, 116, 45, 115, 116, 114, 101, 97, 109, 59, 116, 121, 112, 101,
       61, 73, 110, 116, 49, 54, 65, 114, 114, 97, 121, 59, 98, 97, 115, 101, 54, 52,
       44, 65, 81, 73, 68>>,
     \* "data:application/octet-stream;type=Uint8Array;base64,!"
     <<100, 97, 116, 97, 58, 97, 112, 112, 108, 105, 99, 97, 116, 105, 111, 110, 47,
       111, 99, 116, 101, 116, 45, 115, 116, 114, 101, 97, 109, 59, 116, 121, 112, 101,
       61, 85, 105, 110, 116, 56, 65, 114, 114, 97, 121, 59, 98, 97, 115, 101, 54, 52,
       44, 33>>,
     \* "data:application/octet-stream;type=Uint8Array;base64": no comma
     <<100, 97, 116, 97, 58, 97, 112, 112, 108, 105, 99, 97, 116, 105, 111, 110, 47,
       111, 99, 116, 101, 116, 45, 115, 116, 114, 101, 97, 109, 59, 116, 121, 112, 101,
       61, 85, 105, 110, 116, 56, 65, 114, 114, 97, 121, 59, 98, 97, 115, 101, 54, 52>>,
     \* "data:application/octet-stream;type=Array;base64,AQI="
     <<100, 97, 116, 97, 58, 97, 112, 112, 108, 105, 99, 97, 116, 105, 111, 110, 47,
       111, 99, 116, 101, 116, 45, 115, 116, 114, 101, 97, 109, 59, 116, 121, 112, 101,
       61, 65, 114, 114, 97, 121, 59, 98, 97, 115, 101, 54, 52, 44, 65, 81, 73, 61>>,
     \* "data:application/octet-stream;type=Object;base64,AQI="
     <<100, 97, 116, 97, 58, 97, 112, 112, 108, 105, 99, 97, 116, 105, 111, 110, 47,
       111, 99, 116, 101, 116, 45, 115, 116, 114, 101, 97, 109, 59, 116, 121, 112, 101,
       61, 79, 98, 106, 101, 99, 116, 59, 98, 97, 115, 101, 54, 52, 44, 65, 81, 73, 61>>,
     \* "data:application/octet-stream;type=DataView;base64,AQI="
     <<100, 97, 116, 97, 58, 97, 112, 112, 108, 105, 99, 97, 116, 105, 111, 110, 47,
       111, 99, 116, 101, 116, 45, 115, 116, 114, 101, 97, 109, 59, 116, 121, 112, 101,
       61, 68, 97, 116, 97, 86, 105, 101, 119, 59, 98, 97, 115, 101, 54, 52, 44, 65,
       81, 73, 61>>,
     \* "data:application/octet-stream;type=ArrayBuffer;base64,AQI="
     <<100, 97, 116, 97, 58, 97, 112, 112, 108, 105, 99, 97, 116, 105, 111, 110, 47,
       111, 99, 116, 101, 116, 45, 115, 116, 114, 101, 97, 109, 59, 116, 121, 112, 101,
       61, 65, 114, 114, 97, 121, 66, 117, 102, 102, 101, 114, 59, 98, 97, 115, 101,
       54, 52, 44, 65, 81, 73, 61>>,
     \* "data:application/octet-stream;type=Float16;base64,AQI="
     <<100, 97, 116, 97, 58, 97, 112, 112, 108, 105, 99, 97, 116, 105, 111, 110, 47,
       111, 99, 116, 101, 116, 45, 115, 116, 114, 101, 97, 109, 59, 116, 121, 112, 101,
       61, 70, 108, 111, 97, 116, 49, 54, 59, 98, 97, 115, 101, 54, 52, 44, 65, 81, 73,
       61>>,
     \* "data:application/octet-stream;type=parseInt;base64,AQI="
     <<100, 97, 116, 97, 58, 97, 112, 112, 108, 105, 99, 97, 116, 105, 111, 110, 47,
       111, 99, 116, 101, 116, 45, 115, 116, 114, 101, 97, 109, 59, 116, 121, 112, 101,
       61, 112, 97, 114, 115, 101, 73, 110, 116, 59, 98, 97, 115, 101, 54, 52, 44, 65,
       81, 73, 61>>
    }

\* ... and the tokens the encoders return for short inputs
EncodedStrings ==
    {textToDataUrl(text).v : text \in {t \in TextsOf(MaxLen - 1) : WellFormed(t)}}
    \cup {jsonToDataUrl(data).v :
            data \in {d \in JsonLeaves : d.t # "string" \/ WellFormed(d.s)}}
    \cup {bufferToDataUrl(bytes) : bytes \in ArrayBytesOf(MaxLen - 1)}
    \cup {typedArrayToDataUrl(array, array.k[1]) : array \in TypedArrays}
    \cup {urlToDataUrl(url, FALSE, NoResponse).v :
            url \in {u \in UrlsOf(MaxLen - 1) : WellFormed(u)}}

\* what is given to isDataUrl: any value
Arguments ==
    {Str(text) : text \in GivenStrings \cup EncodedStrings}
    \cup {Null, Undef, Num(123), Bool(TRUE), Obj(<<>>, <<>>),
          Arr(<<Str(<<100, 97, 116, 97, 58>>)>>), Buf(<<100, 97, 116, 97, 58>>)}

\* isDataUrl(value) is called with the argument
IsDataUrl ==
    /\ cDecoder = "none"
    /\ cDecoder' = "isDataUrl"
    /\ cOut' = Ok(Bool(isDataUrl(cInput)))
    /\ UNCHANGED <<cKind, cInput, cToken, cResp>>
    /\ UNCHANGED engineVars

\* getMimeType(dataUrl) is called with the argument, a string
GetMimeType ==
    /\ cToken.ok
    /\ cDecoder = "none"
    /\ cDecoder' = "getMimeType"
    /\ cOut' = Ok(Str(getMimeType(cToken.v)))
    /\ UNCHANGED <<cKind, cInput, cToken, cResp>>
    /\ UNCHANGED engineVars

\* the object params after the assignments params[key] = value of the pairs,
\* in order, to the object of keys k and values c
RECURSIVE ParamsObject(_, _, _)
ParamsObject(pairs, k, c) ==
    IF pairs = <<>> THEN Obj(k, c)
    ELSE ParamsObject(Tail(pairs),
                      ObjSet(k, c, pairs[1][1], Str(pairs[1][2])).keys,
                      ObjSet(k, c, pairs[1][1], Str(pairs[1][2])).vals)

\* getParameters(dataUrl) is called with the argument, a string
GetParameters ==
    /\ cToken.ok
    /\ cDecoder = "none"
    /\ cDecoder' = "getParameters"
    /\ cOut' = Ok(ParamsObject(getParameters(cToken.v), <<>>, <<>>))
    /\ UNCHANGED <<cKind, cInput, cToken, cResp>>
    /\ UNCHANGED engineVars

\* isUrlDataUrl(dataUrl) is called with the argument, a string
IsUrlDataUrl ==
    /\ cToken.ok
    /\ cDecoder = "none"
    /\ cDecoder' = "isUrlDataUrl"
    /\ cOut' = Ok(Bool(isUrlDataUrl(cToken.v)))
    /\ UNCHANGED <<cKind, cInput, cToken, cResp>>
    /\ UNCHANGED engineVars

\* an argument is given; the functions typed (dataUrl: DataUrl) take it when
\* it is a string
TokensInit ==
    /\ EngineIdle
    /\ cKind = "given"
    /\ cInput \in Arguments
    /\ cToken = (IF cInput.t = "string" THEN Ok(cInput.s) ELSE Err("not a string"))
    /\ cDecoder = "none"
    /\ cOut = Fail("none")
    /\ cResp = NoResponse

TokensNext ==
    \/ IsDataUrl
    \/ GetMimeType
    \/ GetParameters
    \/ IsUrlDataUrl
    \/ DataUrlToUrl
    \/ DataUrlToBuffer
    \/ DataUrlToText
    \/ DataUrlToJson
    \/ DataUrlToTypedArray

SpecTokens == TokensInit /\ [][TokensNext]_vars

---------------------------------------------------------------------------
(* dereferenceDataRefs: src/src/v2/dataref.ts, lines 229-282.              *)

\* collectPromises(obj, path): the entries it pushes, in order.  Object.keys
\* of a buffer is empty; the trees given to the call hold no numeric arrays.
RECURSIVE collectPromises(_, _)
RECURSIVE CollectChildren(_, _, _)
collectPromises(obj, path) ==
    IF obj.t \in {"null", "undefined"} THEN <<>>
    ELSE IF isDataUrl(obj) THEN <<Promise(path, obj.s)>>
    ELSE IF obj.t \in {"array", "object"} THEN CollectChildren(obj, path, 1)
    ELSE <<>>

\* the forEach over the items of an array (index i - 1) or over the keys of an
\* object, from the i-th on
CollectChildren(obj, path, i) ==
    IF i > Len(obj.c) THEN <<>>
    ELSE collectPromises(obj.c[i],
                         Append(path, IF obj.t = "array" THEN Num(i - 1) ELSE Str(obj.k[i])))
         \o CollectChildren(obj, path, i + 1)

\* promises.length === 0
NoDataRefs_Never(found) == FALSE

NoDataRefs(found) == Len(found) = 0

\* fetch is given the options as they are
FollowRedirect_AsGiven(options) == options

\* { ...fetchOptions, redirect: "follow" } (line 69)
FollowRedirect(options) == Options(TRUE, options.headers, options.signal, "follow")

\* what a fetch with these options may come to: it is aborted only through a
\* signal
Aborted == Response("aborted", <<>>)
ResponsesOf(init) == IF init.signal # "" THEN Responses \cup {Aborted} ELSE Responses

\* the calls of fetch made while the promises are collected: dataUrlToBuffer
\* runs up to its await fetch(...) inside the call of dereferenceDataUrl
RECURSIVE FetchesOf(_, _)
FetchesOf(found, i) ==
    IF i > Len(found) THEN <<>>
    ELSE (IF Fetches(found[i].dataUrl)
          THEN <<Fetch(dataUrlToUrl(found[i].dataUrl).v, i)>> ELSE <<>>)
         \o FetchesOf(found, i + 1)

\* The turn of the microtask queue in which the promise of an inline token
\* settles: dereferenceDataUrl returns the promise of the decoder, which adds
\* two turns to the turn in which the decoder settles or, when that is turn 0
\* (dataUrlToBuffer, no await) or 1 (dataUrlToText and dataUrlToTypedArray,
\* one await), makes it turn 2.  dataUrlToJson awaits dataUrlToText and
\* settles in turn 2.
Tick(dataUrl) == IF getMimeType(dataUrl) = MIME_JSON THEN 3 ELSE 2

\* the promises that settle without a response: those for which no fetch was
\* made
Inline(calls, i) == \A f \in 1..Len(calls) : calls[f].task # i

InlinePending(calls, ts) ==
    \E i \in 1..Len(ts) : Inline(calls, i) /\ ts[i].status = "pending"

\* the inline promise that settles next: the reactions of one turn run in the
\* order of the promises array
NextInline(found, calls, ts) ==
    LET waiting == {i \in 1..Len(found) : Inline(calls, i) /\ ts[i].status = "pending"}
        turn == [i \in waiting |-> Tick(found[i].dataUrl)]
    IN  CHOOSE i \in waiting :
            \A j \in waiting : turn[i] < turn[j] \/ (turn[i] = turn[j] /\ i <= j)

\* the state of a promise that settled with the result r
Settled(r) == IF r.ok THEN Task("resolved", r.v, "") ELSE Task("failed", Undef, r.err)

\* Promise.all(...) rejects once one of its promises has failed
Rejected_AfterAll(ts) ==
    /\ \E i \in 1..Len(ts) : ts[i].status = "failed"
    /\ \A i \in 1..Len(ts) : ts[i].status # "pending"

Rejected(ts) == \E i \in 1..Len(ts) : ts[i].status = "failed"

\* ... and is fulfilled once all of them have resolved
Fulfilled_Settled(ts) == \A i \in 1..Len(ts) : ts[i].status # "pending"

Fulfilled(ts) == \A i \in 1..Len(ts) : ts[i].status = "resolved"

\* ... with the reason of the promise that failed first
FirstRejection_InPathOrder(ts, settled) ==
    CHOOSE i \in 1..Len(ts) :
        ts[i].status = "failed" /\ \A j \in 1..(i - 1) : ts[j].status # "failed"

FirstRejection(ts, settled) ==
    settled[CHOOSE p \in 1..Len(settled) :
                /\ ts[settled[p]].status = "failed"
                /\ \A q \in 1..(p - 1) : ts[settled[q]].status # "failed"]

\* current[key]: the position in node.c of the child that key names
ChildAt(node, key) ==
    IF node.t = "array" THEN key.n + 1 ELSE IndexOf(node.k, key.s)

\* lines 274-279: the draft with value written at path (path is not empty)
RECURSIVE SetAt(_, _, _)
SetAt(node, path, value) ==
    [node EXCEPT !.c[ChildAt(node, path[1])] =
        IF Len(path) = 1 THEN value ELSE SetAt(@, Tail(path), value)]

\* the rebuild with the results taken in the order in which the tasks
\* settled, not in that of the promises array
RECURSIVE WriteAll_InCompletionOrder(_, _, _, _)
WriteAll_InCompletionOrder(draft, found, results, i) ==
    IF i > Len(found) THEN draft
    ELSE WriteAll_InCompletionOrder(SetAt(draft, found[i].path, results[order[i]].v),
                                    found, results, i + 1)

\* promises.forEach(...): the draft after the writes from the i-th on
RECURSIVE WriteAll(_, _, _, _)
WriteAll(draft, found, results, i) ==
    IF i > Len(found) THEN draft
    ELSE WriteAll(SetAt(draft, found[i].path, results[i].v), found, results, i + 1)

\* the paths of the containers of a tree
RECURSIVE ContainerPaths(_, _)
ContainerPaths(node, path) ==
    IF node.t \notin {"array", "object"} THEN {}
    ELSE {path}
         \cup UNION {ContainerPaths(node.c[i],
                                    Append(path, IF node.t = "array" THEN Num(i - 1)
                                                 ELSE Str(node.k[i]))) :
                       i \in 1..Len(node.c)}

\* a copy of every container, as a deep clone makes
Copied_Everything(found) == IF found = <<>> THEN {} ELSE ContainerPaths(json, <<>>)

\* a copy of the root only, as {...json} makes
Copied_RootOnly(found) == IF found = <<>> THEN {} ELSE {<<>>}

\* the containers that a write went through, which create copies: every
\* proper prefix of a path
Copied(found) ==
    UNION {{Take(found[i].path, n) : n \in 0..(Len(found[i].path) - 1)} :
             i \in 1..Len(found)}

\* create(json, (draft) => ...): create throws for a base that is neither an
\* object nor an array (and so would the write current[undefined] = ... to a
\* string, in strict mode); otherwise the result shares with the base all
\* but the copied containers, and the base is not written
create(base, found, results) ==
    IF base.t \notin {"array", "object"}
    THEN Outcome("rejected", Undef, {}, "Invalid base state")
    ELSE Outcome("fulfilled", WriteAll(base, found, results, 1), Copied(found), "")

\* what the writes leave in the base: a write (from the i-th on) to a
\* container of which create made no copy is a write to the container of the
\* base
RECURSIVE WriteShared(_, _, _, _, _)
WriteShared(base, found, results, fresh, i) ==
    IF i > Len(found) THEN base
    ELSE WriteShared(IF Take(found[i].path, Len(found[i].path) - 1) \in fresh THEN base
                     ELSE SetAt(base, found[i].path, results[i].v),
                     found, results, fresh, i + 1)

\* the tree given to the call after create has returned out or thrown
InputAfter(base, found, results, out) ==
    IF out.status = "fulfilled" THEN WriteShared(base, found, results, out.fresh, 1)
    ELSE base

---------------------------------------------------------------------------
(* The trees given to dereferenceDataRefs, and the responses of fetch.     *)

\* "data:text/plain;charset=utf-8,hi"
TokText == Str(textToDataUrl(<<104, 105>>).v)
\* "data:text/plain;charset=utf-8,%": decodeURIComponent throws
TokTextBad ==
    Str(<<100, 97, 116, 97, 58, 116, 101, 120, 116, 47, 112, 108, 97, 105, 110, 59,
          99, 104, 97, 114, 115, 101, 116, 61, 117, 116, 102, 45, 56, 44, 37>>)
\* the token of {"a": 30}
TokJson == Str(jsonToDataUrl(Obj(<<JsonKeyA>>, <<Num(30)>>)).v)
\* "data:application/json;charset=utf-8,%7B": JSON.parse throws
TokJsonBad ==
    Str(<<100, 97, 116, 97, 58, 97, 112, 112, 108, 105, 99, 97, 116, 105, 111, 110,
          47, 106, 115, 111, 110, 59, 99, 104, 97, 114, 115, 101, 116, 61, 117, 116,
          102, 45, 56, 44, 37, 55, 66>>)
\* the token of the bytes 1, 2
TokBuffer == Str(bufferToDataUrl(<<1, 2>>))
\* the token of new Uint8Array([1, 2])
TokTyped == Str(typedArrayToDataUrl(Typed(Uint8Array, <<1, 2>>), Uint8Array))
\* "data:text/x-uri;charset=utf-8,u" and "...,w": the URLs "u" and "w"
TokUriU ==
    Str(<<100, 97, 116, 97, 58, 116, 101, 120, 116, 47, 120, 45, 117, 114, 105, 59,
          99, 104, 97, 114, 115, 101, 116, 61, 117, 116, 102, 45, 56, 44, 117>>)
TokUriW ==
    Str(<<100, 97, 116, 97, 58, 116, 101, 120, 116, 47, 120, 45, 117, 114, 105, 59,
          99, 104, 97, 114, 115, 101, 116, 61, 117, 116, 102, 45, 56, 44, 119>>)
\* "data:text/x-uri,u": the URL "u", without parameters
TokUriBare ==
    Str(<<100, 97, 116, 97, 58, 116, 101, 120, 116, 47, 120, 45, 117, 114, 105, 44, 117>>)
\* "data:x": no comma
TokNoComma == Str(<<100, 97, 116, 97, 58, 120>>)

\* a v1 reference {ref: "utf8", value: ...} (src/src/v1/types.ts)
Legacy(value) ==
    Obj(<<<<114, 101, 102>>, <<118, 97, 108, 117, 101>>>>, <<Str(<<117, 116, 102, 56>>), value>>)

Leaves ==
    {TokText, TokTextBad, TokJson, TokJsonBad, TokBuffer, TokTyped,
     TokUriU, TokUriW, TokUriBare, TokNoComma,
     Str(<<104, 105>>), Str(<<>>), Num(7), Bool(TRUE), Null, Undef,
     Legacy(Str(<<104, 105>>)), Legacy(TokText), Legacy(TokJsonBad)}

Siblings == {Num(7), TokUriU, TokTextBad}

\* scalars, and arrays and objects of at most two leaves
Flat ==
    Leaves \cup {Arr(<<>>), Obj(<<>>, <<>>)}
    \cup {Arr(<<x>>) : x \in Leaves}
    \cup {Arr(<<x, y>>) : x \in Leaves, y \in Leaves}
    \cup {Obj(<<JsonKeyA>>, <<x>>) : x \in Leaves}
    \cup {Obj(<<JsonKeyA, JsonKeyB>>, <<x, y>>) : x \in Leaves, y \in Leaves}

\* ... wrapped d times in a further array or object, beside a sibling
RECURSIVE Trees(_)
Trees(d) ==
    IF d = 0 THEN Flat
    ELSE LET sub == Trees(d - 1)
         IN  sub
             \cup {Arr(<<s, x>>) : x \in sub \ Leaves, s \in Siblings}
             \cup {Obj(<<JsonKeyA, JsonKeyB>>, <<x, s>>) : x \in sub \ Leaves, s \in Siblings}

---------------------------------------------------------------------------
(* The steps of one call of dereferenceDataRefs(json).                     *)

\* Lines 233-266, the synchronous part of the call: the promises are
\* collected, which makes every fetch, and the call returns json when there
\* are none; otherwise it waits at await Promise.all(...)
Call ==
    /\ pc = "start"
    /\ LET found == collectPromises(json, <<>>)
       IN  /\ promises' = found
           /\ tasks' = [i \in 1..Len(found) |-> Scheduled]
           /\ fetches' = FetchesOf(found, 1)
           /\ requests' = [f \in 1..Len(FetchesOf(found, 1)) |->
                              Request(FollowRedirect(fetchOptions), NoResponse)]
           /\ IF NoDataRefs(found)
              THEN /\ pc' = "settled"
                   /\ outcome' = Outcome("fulfilled", json, {}, "")
              ELSE /\ pc' = "awaiting"
                   /\ outcome' = outcome
    /\ UNCHANGED <<json, order, fetchOptions>>
    /\ UNCHANGED codecVars

\* the promise of an inline token settles; all of them do before the call
\* goes on and before any response arrives
SettleInline ==
    /\ pc = "awaiting"
    /\ InlinePending(fetches, tasks)
    /\ LET i == NextInline(promises, fetches, tasks)
       IN  /\ tasks' = [tasks EXCEPT
                          ![i] = Settled(dereferenceDataUrl(promises[i].dataUrl, NoResponse))]
           /\ order' = Append(order, i)
    /\ UNCHANGED <<json, pc, promises, fetches, outcome, fetchOptions, requests>>
    /\ UNCHANGED codecVars

\* A fetch comes to its end and the promise of its token settles (lines
\* 69-73).  Nothing cancels a fetch: it may end after the call has failed.
\* The reactions to a settled promise run before the next response is
\* handled, so no fetch ends between a rejection of Promise.all and the
\* failure of the call.
SettleFetch ==
    /\ pc \in {"awaiting", "settled"}
    /\ ~InlinePending(fetches, tasks)
    /\ ~(pc = "awaiting" /\ Rejected(tasks))
    /\ \E f \in 1..Len(fetches) :
       \E resp \in ResponsesOf(requests[f].init) :
          /\ tasks[fetches[f].task].status = "pending"
          /\ requests' = [requests EXCEPT ![f] = Request(@.init, resp)]
          /\ tasks' = [tasks EXCEPT
                         ![fetches[f].task] =
                             Settled(dereferenceDataUrl(promises[fetches[f].task].dataUrl, resp))]
          /\ order' = Append(order, fetches[f].task)
    /\ UNCHANGED <<json, pc, promises, fetches, outcome, fetchOptions>>
    /\ UNCHANGED codecVars

\* line 269: Promise.all has rejected, the await throws and the call fails
Reject ==
    /\ pc = "awaiting"
    /\ ~InlinePending(fetches, tasks)
    /\ Rejected(tasks)
    /\ outcome' = Outcome("rejected", Undef, {}, tasks[FirstRejection(tasks, order)].err)
    /\ pc' = "settled"
    /\ UNCHANGED <<json, promises, tasks, fetches, order, fetchOptions, requests>>
    /\ UNCHANGED codecVars

\* lines 269-281: Promise.all is fulfilled and the call returns what create
\* returns
Resolve ==
    /\ pc = "awaiting"
    /\ Fulfilled(tasks)
    /\ outcome' = create(json, promises, tasks)
    /\ json' = InputAfter(json, promises, tasks, create(json, promises, tasks))
    /\ pc' = "settled"
    /\ UNCHANGED <<promises, tasks, fetches, order, fetchOptions, requests>>
    /\ UNCHANGED codecVars

Init ==
    /\ json \in Trees(MaxNesting)
    /\ pc = "start"
    /\ promises = <<>>
    /\ tasks = <<>>
    /\ fetches = <<>>
    /\ order = <<>>
    /\ outcome = NoOutcome
    /\ fetchOptions = NoOptions
    /\ requests = <<>>
    /\ CodecIdle

Next ==
    \/ Call
    \/ SettleInline
    \/ SettleFetch
    \/ Reject
    \/ Resolve

Spec == Init /\ [][Next]_vars

\* the fetchOptions given to a call: none, or a RequestInit with or without
\* headers, an abort signal and a redirect mode
FetchOptions ==
    {NoOptions}
    \cup {Options(TRUE, h, s, r) :
            h \in {"", "authorization"}, s \in {"", "signal"}, r \in {"", "manual"}}

\* trees of one or two tokens, some of them URL tokens
OptionTrees ==
    {Arr(<<x>>) : x \in {TokUriU, TokUriBare}}
    \cup {Arr(<<x, y>>) : x \in {TokUriU, TokText}, y \in {TokUriU, TokUriW, TokJsonBad}}
    \cup {Obj(<<JsonKeyA, JsonKeyB>>, <<Arr(<<x>>), y>>) : x \in {TokUriU}, y \in {TokUriW, Num(7)}}

\* dereferenceDataRefs(json, fetchOptions) is called
OptionsInit ==
    /\ json \in OptionTrees
    /\ pc = "start"
    /\ promises = <<>>
    /\ tasks = <<>>
    /\ fetches = <<>>
    /\ order = <<>>
    /\ outcome = NoOutcome
    /\ fetchOptions \in FetchOptions
    /\ requests = <<>>
    /\ CodecIdle

SpecOptions == OptionsInit /\ [][Next]_vars

\* The job queue runs every reaction that is ready: the synchronous part of
\* the call, the settling of the inline promises and the continuation after
\* await Promise.all are taken when they can be.  When a fetch settles is up
\* to the network, if it does at all.
\* Call is enabled when pc = "start", SettleInline when InlineReady; their
\* weak fairness is written with these conditions.
InlineReady == pc = "awaiting" /\ InlinePending(fetches, tasks)

Fairness ==
    /\ []<>(pc # "start") \/ []<><<Call>>_vars
    /\ []<>(~InlineReady) \/ []<><<SettleInline>>_vars
    /\ WF_vars(Reject)
    /\ WF_vars(Resolve)

SpecFair == Init /\ [][Next]_vars /\ Fairness

---------------------------------------------------------------------------
(* The claims about the codec, under SpecCodec.                            *)

\* the media-kind a token declares: what stands between "data:" and the
\* first semicolon or comma
DeclaredKind(token) == SpanNot(Drop(token, Len(DataPrefix) + 1), {59, 44})

\* C8: for every text x, dataUrlToText(textToDataUrl(x)) is x.
C8_TextRoundTrip ==
    (cKind = "text" /\ cDecoder = "text") => (cOut.ok /\ cOut.v = cInput)

\* C9: for every JSON-compatible value v, jsonToDataUrl(v) is a token and
\* dataUrlToJson of it is a value equal to v.
C9_JsonRoundTrip ==
    /\ cKind = "json" => cToken.ok
    /\ (cKind = "json" /\ cDecoder = "json") => (cOut.ok /\ cOut.v = cInput)

\* a nested value with keys and strings that need escaping went round
C9_Witness ==
    /\ cKind = "json"
    /\ cDecoder = "json"
    /\ cInput = Obj(<<JsonKeyA, JsonKeyB>>,
                    <<Str(<<97, 34, 92>>), Arr(<<Str(<<65279, 97>>), Num(30)>>)>>)
    /\ cOut.ok

\* C10: for every byte sequence b, dataUrlToBuffer(bufferToDataUrl(b)) has
\* exactly the bytes of b, in order.
C10_BufferRoundTrip ==
    (cKind = "buffer" /\ cDecoder = "buffer") => (cOut.ok /\ cOut.v = cInput)

\* a sequence of the bytes 255, 0 and 128 went round
C10_Witness ==
    /\ cKind = "buffer"
    /\ cDecoder = "buffer"
    /\ cInput = Buf(<<255, 0, 128>>)
    /\ cOut.ok

\* array.length, and array[i - 1] as the bytes that hold it
LengthOf(array) == Len(ViewBytes(array)) \div BYTES_PER_ELEMENT(array.k[1])
ElementOf(array, i) ==
    SubSeq(ViewBytes(array), (i - 1) * BYTES_PER_ELEMENT(array.k[1]) + 1,
           i * BYTES_PER_ELEMENT(array.k[1]))

\* C11: for every numeric array x of a supported variant t, whatever its
\* offset and length within its buffer, dataUrlToTypedArray of
\* typedArrayToDataUrl(x, t) is an array of variant t with as many elements
\* as x and the same element at every index.
C11_TypedArrayRoundTrip ==
    (cKind = "typedArray" /\ cDecoder = "typedArray")
    => /\ cOut.ok
       /\ cOut.v.t = "TypedArray"
       /\ cOut.v.k = cInput.k
       /\ LengthOf(cOut.v) = LengthOf(cInput)
       /\ \A i \in 1..LengthOf(cInput) : ElementOf(cOut.v, i) = ElementOf(cInput, i)

\* C12: for every URL string u (a well-formed string), the token t that
\* urlToDataUrl(u) returns without fetch options satisfies isDataUrl(t) and
\* isUrlDataUrl(t), and dataUrlToUrl(t) is u; dataUrlToUrl returns null for
\* every token whose media-kind is not text/x-uri.
C12_UrlRoundTrip ==
    /\ (cKind = "url" /\ WellFormed(cInput.s))
       => (cToken.ok /\ isDataUrl(Str(cToken.v)) /\ isUrlDataUrl(cToken.v))
    /\ (cKind = "url" /\ WellFormed(cInput.s) /\ cDecoder = "url") => cOut = Ok(cInput)
    /\ (cDecoder = "url" /\ DeclaredKind(cToken.v) # MIME_URI) => cOut = Ok(Null)

\* the URL "?,#" went round
C12_Witness ==
    /\ cKind = "url"
    /\ cDecoder = "url"
    /\ cInput = Str(<<63, 44, 35>>)
    /\ cOut = Ok(cInput)

\* the documented headers
HeaderText ==  \* "data:text/plain;charset=utf-8,"
    <<100, 97, 116, 97, 58, 116, 101, 120, 116, 47, 112, 108, 97, 105, 110, 59, 99, 104,
      97, 114, 115, 101, 116, 61, 117, 116, 102, 45, 56, 44>>
HeaderJson ==  \* "data:application/json;charset=utf-8,"
    <<100, 97, 116, 97, 58, 97, 112, 112, 108, 105, 99, 97, 116, 105, 111, 110, 47, 106,
      115, 111, 110, 59, 99, 104, 97, 114, 115, 101, 116, 61, 117, 116, 102, 45, 56, 44>>
HeaderBuffer ==  \* "data:application/octet-stream;base64,"
    <<100, 97, 116, 97, 58, 97, 112, 112, 108, 105, 99, 97, 116, 105, 111, 110, 47, 111,
      99, 116, 101, 116, 45, 115, 116, 114, 101, 97, 109, 59, 98, 97, 115, 101, 54, 52,
      44>>
HeaderTyped(type) ==  \* "data:application/octet-stream;type=" type ";base64,"
    <<100, 97, 116, 97, 58, 97, 112, 112, 108, 105, 99, 97, 116, 105, 111, 110, 47, 111,
      99, 116, 101, 116, 45, 115, 116, 114, 101, 97, 109, 59, 116, 121, 112, 101, 61>>
    \o type \o <<59, 98, 97, 115, 101, 54, 52, 44>>
HeaderUri ==  \* "data:text/x-uri;charset=utf-8,"
    <<100, 97, 116, 97, 58, 116, 101, 120, 116, 47, 120, 45, 117, 114, 105, 59, 99, 104,
      97, 114, 115, 101, 116, 61, 117, 116, 102, 45, 56, 44>>

\* the token is the header followed by a payload without a comma
HasHeader(token, header) ==
    /\ Len(token) >= Len(header)
    /\ SubSeq(token, 1, Len(header)) = header
    /\ \A i \in (Len(header) + 1)..Len(token) : token[i] # 44

PayloadAfter(token, header) == SubSeq(token, Len(header) + 1, Len(token))

\* letters, digits, - _ . ! ~ * ' ( ) and escapes "%XX" only
IsEscapedForm(payload) ==
    \A i \in 1..Len(payload) :
       \/ payload[i] \in (48..57) \cup (65..90) \cup (97..122)
       \/ payload[i] \in {45, 95, 46, 33, 126, 42, 39, 40, 41}
       \/ payload[i] = 37 /\ PctOctet(payload, i) >= 0

\* ... which decode to the text
IsPercentEscaped(payload, text) ==
    IsEscapedForm(payload) /\ decodeURIComponent(payload) = Ok(text)

\* the base64 text of the bytes: letters, digits, + / and = only
IsBase64(payload, bytes) ==
    /\ Len(payload) % 4 = 0
    /\ \A i \in 1..Len(payload) : B64Val(payload[i]) >= 0 \/ payload[i] = 61
    /\ atob(payload) = Ok(bytes)

\* C13: a token of textToDataUrl is "data:text/plain;charset=utf-8," and the
\* percent-escaped text; one of jsonToDataUrl is
\* "data:application/json;charset=utf-8," and the percent-escaped JSON; one of
\* bufferToDataUrl is "data:application/octet-stream;base64," and base64, with
\* no type parameter; one of typedArrayToDataUrl(x, t) is
\* "data:application/octet-stream;type=" t ";base64," and base64; in each the
\* first comma ends the header (the payload has none).  That the payload
\* decodes to the JSON text is compared for the scalars and the empty
\* containers; for the others it is what C9 states.
C13_DocumentedHeaders ==
    /\ (cKind = "text" /\ cDecoder = "none" /\ cToken.ok)
       => /\ HasHeader(cToken.v, HeaderText)
          /\ IsPercentEscaped(PayloadAfter(cToken.v, HeaderText), cInput.s)
    /\ (cKind = "json" /\ cDecoder = "none" /\ cToken.ok)
       => /\ HasHeader(cToken.v, HeaderJson)
          /\ IsEscapedForm(PayloadAfter(cToken.v, HeaderJson))
          /\ cInput.c = <<>>
             => IsPercentEscaped(PayloadAfter(cToken.v, HeaderJson), Stringify(cInput))
    /\ (cKind = "buffer" /\ cDecoder = "none" /\ cToken.ok)
       => /\ HasHeader(cToken.v, HeaderBuffer)
          /\ IsBase64(PayloadAfter(cToken.v, HeaderBuffer), cInput.s)
          /\ ParamValue(getParameters(cToken.v), TypeKey) = <<>>
    /\ (cKind = "typedArray" /\ cDecoder = "none" /\ cToken.ok)
       => /\ HasHeader(cToken.v, HeaderTyped(cInput.k[1]))
          /\ IsBase64(PayloadAfter(cToken.v, HeaderTyped(cInput.k[1])), cInput.s)

\* a text with a comma and a percent sign was encoded
C13_Witness ==
    /\ cKind = "text"
    /\ cDecoder = "none"
    /\ cInput = Str(<<97, 44, 37>>)
    /\ cToken.ok

\* C20: urlToDataUrl(u) without fetch options makes no fetch and returns
\* "data:text/x-uri;charset=utf-8," followed by the percent-escaped text of u.
C20_NoFetchByDefault ==
    /\ (cKind = "url" /\ cDecoder = "none") => fetches = <<>>
    /\ (cKind = "url" /\ cDecoder = "none" /\ WellFormed(cInput.s))
       => /\ cToken.ok
          /\ HasHeader(cToken.v, HeaderUri)
          /\ DeclaredKind(cToken.v) = MIME_URI
          /\ IsPercentEscaped(PayloadAfter(cToken.v, HeaderUri), cInput.s)

\* the token of the URL "h?#" was returned, no fetch made
C20_Witness ==
    /\ cKind = "url"
    /\ cDecoder = "none"
    /\ cInput = Str(<<104, 63, 35>>)
    /\ cToken.ok
    /\ fetches = <<>>

---------------------------------------------------------------------------
(* The claims about the accessors and decoders on given arguments, under   *)
(* SpecTokens.                                                             *)

\* C14: isDataUrl(v) never raises; it is true exactly when v is a string that
\* starts with "data:": true for every token an encoder returns, false for
\* every other string, the empty one too, and for every value that is no
\* string.
C14_IsDataUrlExact ==
    cDecoder = "isDataUrl"
    => /\ cOut.ok
       /\ cOut.v = Bool(/\ cInput.t = "string"
                        /\ Len(cInput.s) >= 5
                        /\ SubSeq(cInput.s, 1, 5) = <<100, 97, 116, 97, 58>>)
       /\ (cInput.t = "string" /\ cInput.s \in EncodedStrings) => cOut.v = Bool(TRUE)
       /\ cInput.t # "string" => cOut.v = Bool(FALSE)

\* isDataUrl was true of the token of the text ","
C14_Witness ==
    /\ cDecoder = "isDataUrl"
    /\ cInput = Str(textToDataUrl(<<44>>).v)
    /\ cOut = Ok(Bool(TRUE))

\* a token of the documented format: "data:", a media-kind, parameters or
\* none, a comma and a payload
IsDocumentedToken(text) ==
    /\ StartsWith(text, DataPrefix)
    /\ IndexOf(text, 44) > 0
    /\ DeclaredKind(text) # <<>>

\* C16: for every token of the documented format, with or without
\* parameters, getMimeType returns the declared media-kind, and isUrlDataUrl
\* is true exactly when that is text/x-uri; on a string that is no token
\* getMimeType returns a value and does not raise.
C16_MimeTypeIsDeclaredKind ==
    /\ cDecoder = "getMimeType" => cOut.ok
    /\ (cDecoder = "getMimeType" /\ IsDocumentedToken(cToken.v))
       => cOut.v = Str(DeclaredKind(cToken.v))
    /\ (cDecoder = "isUrlDataUrl" /\ IsDocumentedToken(cToken.v))
       => cOut = Ok(Bool(DeclaredKind(cToken.v) = MIME_URI))

\* the header of a token: what stands before its first comma, all of it when
\* it has none
HeaderPart(text) == IF IndexOf(text, 44) = 0 THEN text ELSE Take(text, IndexOf(text, 44) - 1)

\* an octet-stream token whose header has no parameter named type
IsUntypedOctetStream(text) ==
    /\ StartsWith(text, DataPrefix)
    /\ DeclaredKind(text) = MIME_OCTET_STREAM
    /\ ~Includes(HeaderPart(text), <<59, 116, 121, 112, 101, 61>>)  \* ";type="

IsMalformed(text) == ~StartsWith(text, DataPrefix) \/ IndexOf(text, 44) = 0

\* C18: dataUrlToBuffer, dataUrlToText, dataUrlToJson and dataUrlToTypedArray
\* each fail with the error of a malformed token when the argument does not
\* begin with "data:" or has no comma, and never return a decoded value for
\* such a string.
C18_MalformedFails ==
    (cDecoder \in {"buffer", "text", "json", "typedArray"} /\ IsMalformed(cToken.v))
    => cOut = Fail("Invalid data URL format")

\* the names of the numeric-array variants
IsSupportedVariant(name) == BYTES_PER_ELEMENT(name) > 0

\* C19: dataUrlToTypedArray fails when the type parameter of the token names
\* no numeric-array variant, and never returns a value that is not a numeric
\* array of one of the variants.
C19_UnsupportedVariantFails ==
    cDecoder = "typedArray"
    => /\ cOut.ok => (cOut.v.t = "TypedArray" /\ IsSupportedVariant(cOut.v.k[1]))
       /\ (/\ ParamValue(getParameters(cToken.v), TypeKey) # <<>>
           /\ ~IsSupportedVariant(ParamValue(getParameters(cToken.v), TypeKey)))
          => ~cOut.ok

---------------------------------------------------------------------------
(* The claim about empty payloads, under SpecTokens.                       *)

\* a token whose payload is empty: its first comma is its last character
IsEmptyPayload(text) == StartsWith(text, DataPrefix) /\ IndexOf(text, 44) = Len(text)

\* C22: a token with an empty payload decodes to the empty value of its
\* media-kind: dataUrlToText of a text/plain token returns the empty string,
\* dataUrlToBuffer of an application/octet-stream token a buffer of no bytes,
\* dataUrlToTypedArray of a token with the type of a numeric-array variant an
\* array of that variant with no element, and dataUrlToJson of an
\* application/json token returns a value and does not fail.
C22_EmptyPayloadDecodes ==
    (cToken.ok /\ IsEmptyPayload(cToken.v))
    => /\ (cDecoder = "text" /\ DeclaredKind(cToken.v) = MIME_TEXT)
          => cOut = Ok(Str(<<>>))
       /\ (cDecoder = "buffer" /\ DeclaredKind(cToken.v) = MIME_OCTET_STREAM)
          => cOut = Ok(Buf(<<>>))
       /\ (/\ cDecoder = "typedArray"
           /\ DeclaredKind(cToken.v) = MIME_OCTET_STREAM
           /\ IsSupportedVariant(ParamValue(getParameters(cToken.v), TypeKey)))
          => cOut = Ok(Typed(ParamValue(getParameters(cToken.v), TypeKey), <<>>))
       /\ (cDecoder = "json" /\ DeclaredKind(cToken.v) = MIME_JSON) => cOut.ok

---------------------------------------------------------------------------
(* The claim about the separator, under SpecTokens.                        *)

\* the payload of a token: what stands after its first comma
PayloadPart(text) == Drop(text, IndexOf(text, 44) + 1)

\* the token of the same header with an empty payload
HeaderOnly(text) == Append(HeaderPart(text), 44)

\* what the decoding of the whole payload to bytes gives, the header having
\* the marker ";base64" or not
PayloadBytes(header, payload) ==
    IF payload = <<>> THEN Ok(Buf(<<>>))
    ELSE IF Includes(header, <<59, 98, 97, 115, 101, 54, 52>>)
    THEN (IF atob(payload).ok THEN Ok(Buf(atob(payload).v)) ELSE Fail(atob(payload).err))
    ELSE IF decodeURIComponent(payload).ok
         THEN Ok(Buf(TextEncode(decodeURIComponent(payload).v)))
         ELSE Fail(decodeURIComponent(payload).err)

\* ... and to a URL
PayloadUrl(payload) ==
    IF decodeURIComponent(payload).ok THEN Ok(Str(decodeURIComponent(payload).v))
    ELSE Fail(decodeURIComponent(payload).err)

\* C23: a token is split at its first comma and nowhere else.  getMimeType
\* and getParameters return for a token what they return for its header with
\* an empty payload; dataUrlToBuffer of an inline token decodes the whole text
\* after the first comma, and dataUrlToUrl of a text/x-uri token unescapes
\* the whole text after the first comma, also when the payload holds a comma
\* or a semicolon.
C23_SplitAtFirstComma ==
    (cToken.ok /\ IsDocumentedToken(cToken.v))
    => /\ cDecoder = "getMimeType" => cOut = Ok(Str(getMimeType(HeaderOnly(cToken.v))))
       /\ cDecoder = "getParameters"
          => cOut = Ok(ParamsObject(getParameters(HeaderOnly(cToken.v)), <<>>, <<>>))
       /\ (cDecoder = "buffer" /\ DeclaredKind(cToken.v) # MIME_URI)
          => cOut = PayloadBytes(HeaderPart(cToken.v), PayloadPart(cToken.v))
       /\ (cDecoder = "url" /\ DeclaredKind(cToken.v) = MIME_URI)
          => cOut = PayloadUrl(PayloadPart(cToken.v))

---------------------------------------------------------------------------
(* The claim about the fetch mode of urlToDataUrl, under SpecCodec.        *)

\* the content type a token made from the response is to carry
ContentTypeOf(resp) ==
    IF resp.contentType = <<>> THEN MIME_OCTET_STREAM ELSE resp.contentType

\* C21: urlToDataUrl(u, fetchOptions), when the response is ok, returns a
\* token "data:application/octet-stream...;base64," whose payload is the
\* base64 text of exactly the bytes of the response and whose header carries
\* the content type of the response, application/octet-stream when the
\* response has none; when the response is not ok, or the fetch rejects, it
\* fails and returns no token.
C21_FetchModeToken ==
    (cKind = "urlFetched" /\ cDecoder = "none" /\ WellFormed(cInput.s))
    => /\ cResp.status = "ok"
          => /\ cToken.ok
             /\ StartsWith(cToken.v, DataPrefix \o MIME_OCTET_STREAM)
             /\ Includes(HeaderPart(cToken.v), Base64Marker)
             /\ IsBase64(Drop(cToken.v, Len(HeaderPart(cToken.v)) + 2), cResp.body)
             /\ Includes(HeaderPart(cToken.v), ContentTypeOf(cResp))
       /\ cResp.status # "ok" => ~cToken.ok

---------------------------------------------------------------------------
(* The claims about dereferenceDataRefs, under Spec.                       *)

IsContainer(node) == node.t \in {"array", "object"}

\* the key of the i-th child of a container, as it stands in a path
KeyOf(node, i) == IF node.t = "array" THEN Num(i - 1) ELSE Str(node.k[i])

\* how many scalars of the tree, at any depth, satisfy the predicate isDataUrl
RECURSIVE TokensIn(_)
RECURSIVE TokensFrom(_, _)
TokensIn(node) ==
    IF isDataUrl(node) THEN 1
    ELSE IF IsContainer(node) THEN TokensFrom(node, 1)
    ELSE 0

TokensFrom(node, i) ==
    IF i > Len(node.c) THEN 0 ELSE TokensIn(node.c[i]) + TokensFrom(node, i + 1)

AllResolved == \A i \in 1..Len(tasks) : tasks[i].status = "resolved"
SomeFailed == \E i \in 1..Len(tasks) : tasks[i].status = "failed"
SomePending == \E i \in 1..Len(tasks) : tasks[i].status = "pending"

\* out is the tree in with every token replaced by the value its task, the
\* one scheduled for its path, resolved with, and is otherwise in: the same
\* keys, the same lengths, the same scalars
RECURSIVE Dereferenced(_, _, _)
Dereferenced(in, out, path) ==
    IF isDataUrl(in)
    THEN \E i \in 1..Len(promises) :
            /\ promises[i].path = path
            /\ tasks[i].status = "resolved"
            /\ out = tasks[i].v
    ELSE IF IsContainer(in)
    THEN /\ out.t = in.t
         /\ out.k = in.k
         /\ Len(out.c) = Len(in.c)
         /\ \A i \in 1..Len(in.c) :
               Dereferenced(in.c[i], out.c[i], Append(path, KeyOf(in, i)))
    ELSE out = in

\* C1: for every tree, when all tasks resolve, dereferenceDataRefs returns a
\* tree of the same shape in which every token, at any depth, is replaced at
\* its own position by its decoded value and every other scalar is as in the
\* input.
C1_SameShapeTokensReplaced ==
    (pc = "settled" /\ AllResolved)
    => (outcome.status = "fulfilled" /\ Dereferenced(json, outcome.v, <<>>))

\* C2: when the tree holds no token, the call returns the input tree itself,
\* no container of it copied, and makes no fetch.
C2_NoTokenReturnsInput ==
    (pc # "start" /\ TokensIn(json) = 0)
    => /\ pc = "settled"
       /\ outcome = Outcome("fulfilled", json, {}, "")
       /\ fetches = <<>>

\* a nested tree without a token was returned
C2_Witness ==
    /\ json = Arr(<<Num(7), Arr(<<Str(<<104, 105>>), Null>>)>>)
    /\ pc = "settled"
    /\ outcome.status = "fulfilled"
    /\ outcome.v = json
    /\ outcome.fresh = {}

\* C3: if the resolution of a token fails the call fails; the caller gets
\* either a failure or a tree in which every token is replaced, never a tree
\* in which only some are.
C3_AllOrNothing ==
    /\ SomeFailed => outcome.status # "fulfilled"
    /\ (SomeFailed /\ pc = "settled") => outcome.status = "rejected"
    /\ outcome.status = "fulfilled"
       => (AllResolved /\ Dereferenced(json, outcome.v, <<>>))

\* one token resolved, the other failed, and the call failed
C3_Witness ==
    /\ json = Arr(<<TokText, TokTextBad>>)
    /\ pc = "settled"
    /\ tasks[1].status = "resolved"
    /\ tasks[2].status = "failed"
    /\ outcome.status = "rejected"

\* C4, as the specification states it: the call reports its failure only
\* after every task has resolved or failed.
C4_FailsAfterAllSettled == outcome.status = "rejected" => ~SomePending

\* C4, amended: the call reports a failure as soon as a task has failed and
\* the inline tasks have settled, whatever fetches are still in flight; those
\* are not cancelled (they stay in flight until they end); the call reports
\* success only after every task has resolved.
C4_FailsAtFirstFailure ==
    [][/\ (SomeFailed /\ pc = "awaiting" /\ ~InlinePending(fetches, tasks))
          => (outcome'.status = "rejected" /\ tasks' = tasks)
       /\ fetches' = fetches \/ pc = "start"
       /\ \A i \in 1..Len(tasks) : tasks[i].status # "pending" => tasks'[i] = tasks[i]
       /\ outcome'.status = "fulfilled"
          => \A i \in 1..Len(tasks') : tasks'[i].status = "resolved"]_vars

\* the call has failed while a fetch is still in flight
C4_Witness ==
    /\ outcome.status = "rejected"
    /\ SomeFailed
    /\ \E f \in 1..Len(fetches) : tasks[fetches[f].task].status = "pending"

\* C5, as the specification states it: of several failures the call reports
\* that of the failing token that is first in path order.
C5_FirstInPathOrder ==
    (outcome.status = "rejected" /\ SomeFailed)
    => \E i \in 1..Len(tasks) :
          /\ tasks[i].status = "failed"
          /\ \A j \in 1..(i - 1) : tasks[j].status # "failed"
          /\ outcome.err = tasks[i].err

\* C5, amended: the call reports the failure of the task that failed first
\* in the order of completion.
C5_FirstInCompletionOrder ==
    (outcome.status = "rejected" /\ SomeFailed)
    => \E p \in 1..Len(order) :
          /\ tasks[order[p]].status = "failed"
          /\ \A q \in 1..(p - 1) : tasks[order[q]].status = "resolved"
          /\ outcome.err = tasks[order[p]].err

\* two tokens failed and the call reported the failure of the second in path
\* order, which failed first
C5_Witness ==
    /\ outcome.status = "rejected"
    /\ Len(tasks) = 2
    /\ tasks[1].status = "failed"
    /\ tasks[2].status = "failed"
    /\ order = <<2, 1>>
    /\ outcome.err = tasks[2].err
    /\ outcome.err # tasks[1].err

\* how many tokens of the tree declare the media-kind text/x-uri
RECURSIVE UriTokensIn(_)
RECURSIVE UriTokensFrom(_, _)
UriTokensIn(node) ==
    IF isDataUrl(node) THEN (IF DeclaredKind(node.s) = MIME_URI THEN 1 ELSE 0)
    ELSE IF IsContainer(node) THEN UriTokensFrom(node, 1)
    ELSE 0

UriTokensFrom(node, i) ==
    IF i > Len(node.c) THEN 0 ELSE UriTokensIn(node.c[i]) + UriTokensFrom(node, i + 1)

\* C6: a tree with N uri-reference tokens makes N fetches, all of them made
\* by the end of the discovery pass.
C6_OneFetchPerUriToken == pc # "start" => Len(fetches) = UriTokensIn(json)

\* a mapping of the legacy reference shape: a discriminator ref and a value
IsLegacy(node) ==
    node.t = "object" /\ node.k = <<<<114, 101, 102>>, <<118, 97, 108, 117, 101>>>>

\* every legacy reference of the tree in is, in out, as it is in in
RECURSIVE LegacyKept(_, _)
LegacyKept(in, out) ==
    IF IsLegacy(in) THEN out = in
    ELSE IF IsContainer(in) /\ out.t = in.t /\ Len(out.c) = Len(in.c)
    THEN \A i \in 1..Len(in.c) : LegacyKept(in.c[i], out.c[i])
    ELSE TRUE

\* C7: every legacy reference appears in the result equal to the input
\* mapping, whatever its value holds, also a string that starts with "data:";
\* a legacy reference is never decoded.
C7_LegacyUnchanged == outcome.status = "fulfilled" => LegacyKept(json, outcome.v)

\* the value is what a token of the declared media-kind decodes to: a JSON
\* value, a string, a numeric array of the variant the type parameter names,
\* a byte sequence, or the bytes of a response of fetch
DecodedAs(token, value) ==
    IF DeclaredKind(token) = MIME_JSON
    THEN value.t \in {"null", "boolean", "number", "string", "array", "object"}
    ELSE IF DeclaredKind(token) = MIME_TEXT THEN value.t = "string"
    ELSE IF DeclaredKind(token) = MIME_OCTET_STREAM
    THEN IF ParamValue(getParameters(token), TypeKey) # <<>>
         THEN /\ value.t = "TypedArray"
              /\ value.k = <<ParamValue(getParameters(token), TypeKey)>>
         ELSE value.t = "ArrayBuffer"
    ELSE IF DeclaredKind(token) = MIME_URI
    THEN \E resp \in Responses : resp.status = "ok" /\ value = Buf(resp.body)
    ELSE TRUE

\* C15: within dereferenceDataRefs every token is decoded according to its
\* declared media-kind, with or without parameters: application/json to the
\* parsed value, text/plain to a string, application/octet-stream to a
\* numeric array of the variant of its type parameter or, without one, to a
\* byte sequence, text/x-uri to the bytes fetched from its URL; and a fetch is
\* made for a token only if its media-kind is text/x-uri.
C15_DecodedByDeclaredKind ==
    /\ \A i \in 1..Len(tasks) :
          tasks[i].status = "resolved" => DecodedAs(promises[i].dataUrl, tasks[i].v)
    /\ \A i \in 1..Len(tasks) :
          DeclaredKind(promises[i].dataUrl) = MIME_URI
          => \E f \in 1..Len(fetches) : fetches[f].task = i
    /\ \A f \in 1..Len(fetches) :
          DeclaredKind(promises[fetches[f].task].dataUrl) = MIME_URI

\* the node of a tree that a path leads to
RECURSIVE ValueAt(_, _)
ValueAt(node, path) ==
    IF path = <<>> THEN node
    ELSE ValueAt(node.c[ChildAt(node, path[1])], Tail(path))

\* C24: in the tree the call returns, at every recorded path stands the
\* result of the task scheduled for the token that stands at that path in the
\* input, whatever the order in which the tasks settled; so no result stands
\* at the path of another token.
C24_ResultsAtOwnPaths ==
    (outcome.status = "fulfilled" /\ promises # <<>>)
    => \A i \in 1..Len(promises) :
          /\ ValueAt(json, promises[i].path) = Str(promises[i].dataUrl)
          /\ tasks[i].status = "resolved"
          /\ ValueAt(outcome.v, promises[i].path) = tasks[i].v
          /\ \A j \in 1..Len(promises) : j # i => promises[j].path # promises[i].path

\* three tokens with three different results settled in the reverse of their
\* order in the tree, and each result stands at the path of its token
C24_Witness ==
    /\ json = Arr(<<TokUriU, Arr(<<TokJson, TokText>>)>>)
    /\ order = <<3, 2, 1>>
    /\ outcome.status = "fulfilled"
    /\ outcome.v = Arr(<<Buf(<<104, 105>>),
                         Arr(<<Obj(<<JsonKeyA>>, <<Num(30)>>), Str(<<104, 105>>)>>)>>)

\* C25: no step of a call of dereferenceDataRefs, one that succeeds or one
\* that fails, changes the tree given to it: its containers and its token
\* strings stay as they were, and the resolved values are in the returned
\* tree only.
C25_InputNotMutated == [][json' = json]_vars

\* a call has returned a tree with the resolved value while the tree given
\* to it still holds the token, in a nested container
C25_Witness ==
    /\ json = Obj(<<JsonKeyA, JsonKeyB>>, <<Arr(<<TokText>>), Num(7)>>)
    /\ pc = "settled"
    /\ outcome.status = "fulfilled"
    /\ outcome.v = Obj(<<JsonKeyA, JsonKeyB>>, <<Arr(<<Str(<<104, 105>>)>>), Num(7)>>)

\* C26: in the tree the call returns, the containers that are new objects
\* are exactly those of the input that hold a token, at any depth below them
\* (the nodes on the path from the root to a token); every other container is
\* the node of the input itself, with its contents.
C26_StructuralSharing ==
    outcome.status = "fulfilled"
    => /\ outcome.fresh \subseteq ContainerPaths(json, <<>>)
       /\ \A p \in ContainerPaths(json, <<>>) :
             /\ p \in outcome.fresh <=> TokensIn(ValueAt(json, p)) > 0
             /\ p \notin outcome.fresh => ValueAt(outcome.v, p) = ValueAt(json, p)

\* the root and the array that holds the token were copied, the mapping
\* beside the token was reused
C26_Witness ==
    /\ json = Arr(<<Num(7), Arr(<<Legacy(Str(<<104, 105>>)), TokText>>)>>)
    /\ outcome.status = "fulfilled"
    /\ outcome.fresh = {<<>>, <<Num(1)>>}
    /\ ValueAt(outcome.v, <<Num(1), Num(0)>>) = Legacy(Str(<<104, 105>>))
    /\ ValueAt(outcome.v, <<Num(1), Num(1)>>) = Str(<<104, 105>>)

\* C27: a call whose tree is a single scalar settles with the decoded value
\* of the scalar when it is a token (and its task resolved), and with the
\* scalar itself when it is no token, null or undefined.
C27_ScalarRoot ==
    (pc = "settled" /\ json.t \notin {"array", "object"})
    => IF isDataUrl(json)
       THEN tasks[1].status = "resolved"
            => outcome.status = "fulfilled" /\ outcome.v = tasks[1].v
       ELSE outcome = Outcome("fulfilled", json, {}, "")

\* a task in a terminal state stays as it is
TerminalStays ==
    \A i \in 1..Len(tasks) :
        tasks[i].status # "pending" => (i <= Len(tasks') /\ tasks'[i] = tasks[i])

\* a task leaves the pending state once, for resolved or failed
SettledOnce ==
    /\ \A p, q \in 1..Len(order) : order[p] = order[q] => p = q
    /\ \A i \in 1..Len(tasks) :
          /\ tasks[i].status \in {"pending", "resolved", "failed"}
          /\ tasks[i].status # "pending" <=> \E p \in 1..Len(order) : order[p] = i

\* one fetch, and no more, for every token found that declares text/x-uri
OneFetchEach ==
    pc # "start"
    => \A i \in 1..Len(promises) :
          Cardinality({f \in 1..Len(fetches) : fetches[f].task = i})
          = (IF DeclaredKind(promises[i].dataUrl) = MIME_URI THEN 1 ELSE 0)

\* C28: every task of a call goes from pending to resolved or failed and
\* stays there; every token found is decoded at most once, exactly one fetch
\* is made for every uri-reference token, and no fetch is made again after a
\* failure.
C28_TaskStateMachine ==
    /\ [][TerminalStays /\ (pc # "start" => fetches' = fetches)]_vars
    /\ [](SettledOnce /\ OneFetchEach)

---------------------------------------------------------------------------
(* The claims about the fetch options, under SpecOptions.                  *)

\* C29: every fetch made for a call carries the headers and the signal of
\* the fetchOptions given to the call and the redirect mode "follow",
\* whatever mode was given, and so all fetches of a call carry the same
\* options; the task of a fetch that came to a response that is not ok, or
\* that was aborted, has failed.
C29_OptionsForwarded ==
    \A f \in 1..Len(fetches) :
        /\ requests[f].init.headers = fetchOptions.headers
        /\ requests[f].init.signal = fetchOptions.signal
        /\ requests[f].init.redirect = "follow"
        /\ \A g \in 1..Len(fetches) : requests[g].init = requests[f].init
        /\ requests[f].resp.status \in {"notok", "aborted"}
           => tasks[fetches[f].task].status = "failed"

\* two fetches made with headers, a signal and the redirect mode "manual":
\* one was aborted, the other came to a response that is not ok
C29_Witness ==
    /\ json = Arr(<<TokUriU, TokUriW>>)
    /\ fetchOptions = Options(TRUE, "authorization", "signal", "manual")
    /\ Len(fetches) = 2
    /\ requests[1].init = Options(TRUE, "authorization", "signal", "follow")
    /\ requests[1].resp.status = "aborted"
    /\ requests[2].resp.status = "notok"
    /\ tasks[1].status = "failed" /\ tasks[2].status = "failed"

---------------------------------------------------------------------------
(* The claims about termination, under SpecFair.                           *)

\* a fetch was made and has not settled
FetchInFlight ==
    \E f \in 1..Len(fetches) : tasks[fetches[f].task].status = "pending"

\* C30: if every fetch of the call settles in the end, the call settles;
\* once settled it stays as it settled; it settles with the tree when every
\* task resolved and with a failure when some task failed; and for a tree
\* without uri-reference token no fetch is made.
C30_CallSettles ==
    /\ <>[](~FetchInFlight) => <>(pc = "settled")
    /\ [][pc = "settled" => (pc' = "settled" /\ outcome' = outcome)]_vars
    /\ [](pc = "settled"
          => /\ AllResolved => outcome.status = "fulfilled"
             /\ SomeFailed => outcome.status = "rejected")
    /\ [](UriTokensIn(json) = 0 => fetches = <<>>)

===========================================================================
